---------------------------- MODULE Spec2Model ----------------------------
(***************************************************************************)
(* Stroke-width-transform text detection (bibnumber/textdetection.cpp).    *)
(*                                                                         *)
(* The detection run is a strictly sequential pipeline.  Each stage is     *)
(* modelled by its own specification whose initial states enumerate the    *)
(* stage's inputs from bounded sets:                                       *)
(*   SpecSWT    strokeWidthTransform, then SWTMedianFilter                 *)
(*   SpecCC     findLegallyConnectedComponents                             *)
(*   SpecFilter filterComponents                                           *)
(*   SpecChains makeChains                                                 *)
(*   SpecRender makeChains, then renderChainsWithBoxes                     *)
(*                                                                         *)
(* Number representation.                                                  *)
(*  - A stroke width is a float sqrt(n), n a sum of two integer squares.   *)
(*    The map stores n (the squared width); -1 is the unset sentinel.      *)
(*    min, <, sorting and the median commute with squaring on the          *)
(*    non-negative values, and a/b <= 3 is a*a <= 9*b*b.                    *)
(*  - Component centres are half-integers; they are stored doubled.        *)
(*  - A chain direction is the unit vector d/|d|; the model stores the     *)
(*    doubled centre difference d and evaluates acos(u.v) < PI/6 as         *)
(*    u.v > 0 /\ 4(u.v)^2 > 3|u|^2|v|^2 on the unnormalised vectors.  A    *)
(*    zero vector stands for the NaN direction, for which every            *)
(*    comparison of the code is false.                                     *)
(*  - Rotations use cos/sin tables in units of 1/1000.                     *)
(***************************************************************************)
EXTENDS Integers, Sequences, FiniteSets, TLC

VARIABLES
    pc,               \* position of the run inside the stage being modelled
    size,             \* <<width, height>> of the input image
    edgeImage,        \* Canny edge mask: pixel -> BOOLEAN
    gradient,         \* (gradientX, gradientY) at each pixel
    params,           \* TextDetectionParams
    SWTImage,         \* the stroke width map
    rays,             \* accepted rays, in discovery order
    scan,             \* raster cursor (row * width + col) / loop index
    preFilter,        \* the map as SWTMedianFilter received it
    g,                \* the component graph: set of edges {u, v}
    components,       \* raw components
    validComponents, compBB, compCenters, compMedians, compDimensions,
    firstPass,        \* the survivors of the first pass of filterComponents
    chains,           \* the chain pool of makeChains
    loop,             \* [i, j, merges] of the merge loop, passes completed
    seeds,            \* the seed chains as sorted by chainSortDist
    text,             \* the caller's output list of strings
    verdicts,         \* per chain of renderChainsWithBoxes: how it ended
                      \* and the point its patch is rotated about
    image,            \* the input image: whether it decoded, depth, channels
    bibNumbers,       \* the caller's list of numbers (processSingleImage)
    res               \* the value processSingleImage returned

swtVars    == <<size, edgeImage, gradient, params, SWTImage, rays, preFilter>>
ccVars     == <<g, components>>
filterVars == <<validComponents, compBB, compCenters, compMedians,
                compDimensions, firstPass>>
chainVars  == <<chains, loop, seeds>>
renderVars == <<text, verdicts>>
callVars   == <<image, bibNumbers, res>>
vars == <<pc, scan, swtVars, ccVars, filterVars, chainVars, renderVars,
          callVars>>

-----------------------------------------------------------------------------
(* Bounds of the model *)

\* SpecSWT: image size and number of edge pixels, gradients in all eight
\* compass directions.
ImgW == 3
ImgH == 2
MaxEdges == 4

-----------------------------------------------------------------------------
(* Generic helpers *)

Min(a, b) == IF a < b THEN a ELSE b
Max(a, b) == IF a > b THEN a ELSE b
Range(s) == {s[k] : k \in DOMAIN s}

Width == size[1]
Height == size[2]
Pixels == (0 .. Width - 1) \X (0 .. Height - 1)
PixelAt(k) == <<k % Width, k \div Width>>
RasterIndex(p) == p[2] * Width + p[1]
InImage(p) == p[1] >= 0 /\ p[1] < Width /\ p[2] >= 0 /\ p[2] < Height

\* std::sort / std::stable_sort with comparator lhs.key < rhs.key, as an
\* insertion sort that keeps equal keys in their order.  Key maps each
\* element to its key.
RECURSIVE InsertBy(_, _, _)
InsertBy(Key, x, s) ==
    IF s = <<>> THEN <<x>>
    ELSE IF Key[x] < Key[s[Len(s)]]
         THEN Append(InsertBy(Key, x, SubSeq(s, 1, Len(s) - 1)), s[Len(s)])
         ELSE Append(s, x)

RECURSIVE SortBy(_, _)
SortBy(Key, s) ==
    IF s = <<>> THEN <<>>
    ELSE InsertBy(Key, s[Len(s)], SortBy(Key, SubSeq(s, 1, Len(s) - 1)))

-----------------------------------------------------------------------------
(* strokeWidthTransform *)

\* The value detect fills the map with before the transform.
Unset == -1

\* The eight compass gradients the inputs are drawn from.
Dirs == {d \in (-1 .. 1) \X (-1 .. 1) : d # <<0, 0>>}
NoGradient == <<0, 0>>

\* The polarity-corrected, normalised gradient: the direction of the walk.
\* Normalisation divides by a positive magnitude; only the direction is kept.
RayDir(p) ==
    IF params.darkOnLight THEN <<-gradient[p][1], -gradient[p][2]>>
    ELSE gradient[p]

\* The walk in steps of prec = .05 from the centre of p along a compass
\* direction enters exactly the pixels p + k*d.  It stops at the first pixel
\* outside the image (no q) or at the first edge pixel entered (q).
RECURSIVE Walk(_, _, _)
Walk(cur, d, points) ==
    LET pnew == <<cur[1] + d[1], cur[2] + d[2]>> IN
    IF ~InImage(pnew) THEN [points |-> points, hit |-> FALSE, q |-> pnew]
    ELSE IF edgeImage[pnew]
         THEN [points |-> Append(points, pnew), hit |-> TRUE, q |-> pnew]
         ELSE Walk(pnew, d, Append(points, pnew))

OpposingAlways(d, dt) == TRUE

\* acos(G_x * -G_xt + G_y * -G_yt) < PI / 2.0 : the dot product is positive.
OpposingGradient(d, dt) == d[1] * (-dt[1]) + d[2] * (-dt[2]) > 0

\* Squared Euclidean distance between the ray's end pixels.
RayLength2(p, q) ==
    (q[1] - p[1]) * (q[1] - p[1]) + (q[2] - p[2]) * (q[2] - p[2])

SWTUpdateOverwrite(cur, length) == length

\* The min-update rule of one path pixel.
SWTUpdate(cur, length) == IF cur < 0 THEN length ELSE Min(length, cur)

\* The raster index of the first edge pixel at or after k (Width * Height when
\* there is none): the iterations in between find *ptr > 0 false.
RECURSIVE NextEdge(_)
NextEdge(k) ==
    IF k >= Width * Height \/ edgeImage[PixelAt(k)] THEN k ELSE NextEdge(k + 1)

\* One iteration of the col loop at an edge pixel: the ray of that pixel.
CastRay ==
    /\ pc = "swt"
    /\ NextEdge(scan) < Width * Height
    /\ LET p == PixelAt(NextEdge(scan))
           w == Walk(p, RayDir(p), <<p>>)
           length == RayLength2(p, w.q)
           accepted == /\ w.hit
                       /\ OpposingGradient(RayDir(p), RayDir(w.q))
                       /\ ~(length > params.maxStrokeLength2)
       IN  IF accepted
           THEN /\ SWTImage' = [x \in Pixels |->
                                  IF x \in Range(w.points)
                                  THEN SWTUpdate(SWTImage[x], length)
                                  ELSE SWTImage[x]]
                /\ rays' = Append(rays, [p |-> p, q |-> w.q,
                                         points |-> w.points])
           ELSE UNCHANGED <<SWTImage, rays>>
    /\ scan' = NextEdge(scan) + 1
    /\ UNCHANGED <<pc, size, edgeImage, gradient, params, preFilter>>
    /\ UNCHANGED <<ccVars, filterVars, chainVars, renderVars>>
    /\ UNCHANGED callVars

\* strokeWidthTransform returns; detect hands the map to SWTMedianFilter.
SWTReturn ==
    /\ pc = "swt"
    /\ NextEdge(scan) = Width * Height
    /\ pc' = "median"
    /\ scan' = 1
    /\ preFilter' = SWTImage
    /\ UNCHANGED <<size, edgeImage, gradient, params, SWTImage, rays>>
    /\ UNCHANGED <<ccVars, filterVars, chainVars, renderVars>>
    /\ UNCHANGED callVars

-----------------------------------------------------------------------------
(* SWTMedianFilter *)

\* rit->points[rit->points.size() / 2] of the sorted points
MedianIndex(n) == n \div 2

\* Point2dSort: the points of a ray ordered by the value read from the map.
SortedPoints(points, img) ==
    LET Key == [x \in Range(points) |-> img[x]] IN SortBy(Key, points)

RayMedian(points, img) ==
    img[SortedPoints(points, img)[MedianIndex(Len(points)) + 1]]

MedianClampMax(v, median) == Max(v, median)

\* std::min(pit->SWT, median)
MedianClamp(v, median) == Min(v, median)

\* One iteration of the loop over the rays.
MedianFilterRay ==
    /\ pc = "median"
    /\ scan <= Len(rays)
    /\ LET r == rays[scan]
           median == RayMedian(r.points, SWTImage)
       IN  /\ SWTImage' = [x \in Pixels |->
                             IF x \in Range(r.points)
                             THEN MedianClamp(SWTImage[x], median)
                             ELSE SWTImage[x]]
           /\ rays' = [rays EXCEPT ![scan].points =
                                      SortedPoints(r.points, SWTImage)]
    /\ scan' = scan + 1
    /\ UNCHANGED <<pc, size, edgeImage, gradient, params, preFilter>>
    /\ UNCHANGED <<ccVars, filterVars, chainVars, renderVars>>
    /\ UNCHANGED callVars

MedianFilterReturn ==
    /\ pc = "median"
    /\ scan > Len(rays)
    /\ pc' = "components"
    /\ scan' = 0
    /\ UNCHANGED <<swtVars, ccVars, filterVars, chainVars, renderVars>>
    /\ UNCHANGED callVars

\* Negating every gradient and flipping darkOnLight gives the same run, so
\* each stroke length bound is explored under one polarity.
ParamChoices ==
    {[darkOnLight |-> TRUE, maxStrokeLength2 |-> 4,
      topBorder |-> 0, bottomBorder |-> 0],
     [darkOnLight |-> FALSE, maxStrokeLength2 |-> 2,
      topBorder |-> 0, bottomBorder |-> 0]}

\* A well-formed image is being processed; no file is being read.
NoCall ==
    /\ image = [decoded |-> TRUE, depth |-> 8, nChannels |-> 3]
    /\ bibNumbers = <<>>
    /\ res = 0

\* The stages after the ray stages have not run.
Downstream0 ==
    /\ g = {} /\ components = <<>>
    /\ validComponents = <<>> /\ compBB = <<>> /\ compCenters = <<>>
    /\ compMedians = <<>> /\ compDimensions = <<>> /\ firstPass = <<>>
    /\ chains = <<>> /\ loop = <<>> /\ seeds = <<>>
    /\ text = <<>> /\ verdicts = <<>>
    /\ NoCall

\* Inputs of a detection run: an image of size sz with at most maxEdges edge
\* pixels, each with a gradient from dirs; the gradient of a non-edge pixel
\* is never read.  The map starts unset everywhere (TextDetector::detect).
InitImage(sz, dirs, maxEdges, choices) ==
    /\ pc = "swt"
    /\ scan = 0
    /\ size = sz
    /\ \E E \in SUBSET ((0 .. sz[1] - 1) \X (0 .. sz[2] - 1)) :
         /\ Cardinality(E) <= maxEdges
         /\ \E gd \in [E -> dirs] :
              /\ edgeImage = [p \in (0 .. sz[1] - 1) \X (0 .. sz[2] - 1) |->
                                p \in E]
              /\ gradient = [p \in (0 .. sz[1] - 1) \X (0 .. sz[2] - 1) |->
                               IF p \in E THEN gd[p] ELSE NoGradient]
    /\ params \in choices
    /\ SWTImage = [p \in (0 .. sz[1] - 1) \X (0 .. sz[2] - 1) |-> Unset]
    /\ rays = <<>>
    /\ preFilter = [p \in (0 .. sz[1] - 1) \X (0 .. sz[2] - 1) |-> Unset]

InitSWT ==
    /\ InitImage(<<ImgW, ImgH>>, Dirs, MaxEdges, ParamChoices)
    /\ Downstream0

NextSWT == CastRay \/ SWTReturn \/ MedianFilterRay \/ MedianFilterReturn

SpecSWT == InitSWT /\ [][NextSWT]_vars

-----------------------------------------------------------------------------
(* findLegallyConnectedComponents *)

InMap(p) == p \in DOMAIN SWTImage

\* A vertex of the graph: *ptr > 0.
Defined(p) == SWTImage[p] > 0

\* (*ptr) / v <= 3.0 || v / (*ptr) <= 3.0 on the widths, i.e. on the squared
\* widths a and b: a <= 9b or b <= 9a.
RatioLegal(a, b) == a <= 9 * b \/ b <= 9 * a

\* The neighbours examined from a pixel: right, right-down, down, left-down.
Forward(p) ==
    {q \in {<<p[1] + 1, p[2]>>, <<p[1] + 1, p[2] + 1>>,
            <<p[1], p[2] + 1>>, <<p[1] - 1, p[2] + 1>>} : InImage(q)}

\* The raster index of the first defined pixel at or after k.
RECURSIVE NextDefined(_)
NextDefined(k) ==
    IF k >= Width * Height \/ Defined(PixelAt(k)) THEN k
    ELSE NextDefined(k + 1)

\* One iteration of the edge loop at a defined pixel.
AddEdges ==
    /\ pc = "components"
    /\ NextDefined(scan) < Width * Height
    /\ LET p == PixelAt(NextDefined(scan)) IN
         g' = g \cup {{p, q} : q \in {n \in Forward(p) :
                          /\ SWTImage[n] > 0
                          /\ RatioLegal(SWTImage[p], SWTImage[n])}}
    /\ scan' = NextDefined(scan) + 1
    /\ UNCHANGED <<pc, swtVars, components, filterVars, chainVars,
                   renderVars>>
    /\ UNCHANGED callVars

\* The vertices connected to those of S.
RECURSIVE Reach(_)
Reach(S) ==
    LET N == S \cup {u \in Pixels : \E v \in S : {u, v} \in g} IN
    IF N = S THEN S ELSE Reach(N)

\* The pixels of S with raster index >= k, in raster order (revmap order).
RECURSIVE InRasterOrder(_, _)
InRasterOrder(S, k) ==
    IF k >= Width * Height THEN <<>>
    ELSE IF PixelAt(k) \in S THEN <<PixelAt(k)>> \o InRasterOrder(S, k + 1)
         ELSE InRasterOrder(S, k + 1)

LabelledRows(k, seen) ==
    [r \in 1 .. Height |-> [x \in 1 .. Width |-> <<x - 1, r - 1>>]]

\* connected_components numbers the components by their first vertex; the
\* vertices of each are then appended in vertex order.
RECURSIVE Labelled(_, _)
Labelled(k, seen) ==
    IF k >= Width * Height THEN <<>>
    ELSE IF Defined(PixelAt(k)) /\ PixelAt(k) \notin seen
         THEN LET c == Reach({PixelAt(k)}) IN
              <<InRasterOrder(c, 0)>> \o Labelled(k + 1, seen \cup c)
         ELSE Labelled(k + 1, seen)

ConnectedComponents ==
    /\ pc = "components"
    /\ NextDefined(scan) = Width * Height
    /\ components' = Labelled(0, {})
    /\ pc' = "filter"
    /\ scan' = 1
    /\ UNCHANGED <<swtVars, g, filterVars, chainVars, renderVars>>
    /\ UNCHANGED callVars

\* SpecCC: a run of the ray stages followed by the component stage, on an
\* image wide enough for strokes of width 1 and 4 to lie side by side.
CCImgW == 5
CCImgH == 2
CCMaxEdges == 4
AxisDirs == {<<1, 0>>, <<-1, 0>>, <<0, 1>>, <<0, -1>>}

InitCC ==
    /\ InitImage(<<CCImgW, CCImgH>>, AxisDirs, CCMaxEdges,
                 {[darkOnLight |-> FALSE, maxStrokeLength2 |-> 16,
                   topBorder |-> 0, bottomBorder |-> 0]})
    /\ Downstream0

NextCC == NextSWT \/ AddEdges \/ ConnectedComponents

SpecCC == InitCC /\ [][NextCC]_vars

-----------------------------------------------------------------------------
(* filterComponents *)

\* The initial value of the running minima (1000000) and the font height
\* ceiling.
Big == 1000000
MaxFontHeight == 300

\* Fixed-point scale of the rotated coordinates: cos and sin of the sampled
\* angles are tabulated in units of 1/1000 (areas stay below 2^31).
Fixed(n) == n * 1000

\* theta runs over the float multiples k * PI / 36 below PI / 2.0; the float
\* accumulation reaches 1.5707961 < PI / 2.0 at k = 18, so 18 angles are
\* sampled, the last one 90 degrees up to 2e-7.
CosT == <<996, 985, 966, 940, 906, 866, 819, 766, 707,
          643, 574, 500, 423, 342, 259, 174, 87, 0>>
SinT == <<87, 174, 259, 342, 423, 500, 574, 643, 707,
          766, 819, 866, 906, 940, 966, 985, 996, 1000>>
Angles == 1 .. Len(CosT)

MinOver(init, S) ==
    IF S = {} THEN init
    ELSE LET v == CHOOSE v \in S : \A w \in S : v <= w IN Min(init, v)

MaxOver(init, S) ==
    IF S = {} THEN init
    ELSE LET v == CHOOSE v \in S : \A w \in S : v >= w IN Max(init, v)

ComponentStatsLoose(c) ==
    LET P == Range(c) IN
    [median |-> SWTImage[c[1]],
     minx |-> MinOver(0, {x[1] : x \in P}),
     miny |-> MinOver(0, {x[2] : x \in P}),
     maxx |-> MaxOver(0, {x[1] : x \in P}),
     maxy |-> MaxOver(0, {x[2] : x \in P})]

\* componentStats: the median of the member values and the bounding box,
\* the minima folded from 1000000 and the maxima from 0.
ComponentStats(c) ==
    LET P == Range(c)
        Key == [x \in P |-> SWTImage[x]]
        temp == SortBy(Key, c)
    IN  [median |-> SWTImage[temp[Len(c) \div 2 + 1]],
         minx |-> MinOver(Big, {x[1] : x \in P}),
         miny |-> MinOver(Big, {x[2] : x \in P}),
         maxx |-> MaxOver(0, {x[1] : x \in P}),
         maxy |-> MaxOver(0, {x[2] : x \in P})]

\* The member pixels rotated about the origin by the k-th angle.
RotX(x, k) == x[1] * CosT[k] - x[2] * SinT[k]
RotY(x, k) == x[1] * SinT[k] + x[2] * CosT[k]

\* The value xmax and ymax start from.
MaxSeed == 0

\* ltemp and wtemp of the k-th angle: xmin, ymin start from 1000000 and
\* xmax, ymax from 0.
Candidate(c, k) ==
    LET P == Range(c)
        xmin == MinOver(Fixed(Big), {RotX(x, k) : x \in P})
        xmax == MaxOver(MaxSeed, {RotX(x, k) : x \in P})
        ymin == MinOver(Fixed(Big), {RotY(x, k) : x \in P})
        ymax == MaxOver(MaxSeed, {RotY(x, k) : x \in P})
    IN  [length |-> xmax - xmin + Fixed(1), width |-> ymax - ymin + Fixed(1)]

\* The loop over theta: a candidate replaces the box kept so far when its
\* area is strictly smaller.
RECURSIVE BoxSearch(_, _, _)
BoxSearch(c, k, best) ==
    IF k > Len(CosT) THEN best
    ELSE LET t == Candidate(c, k) IN
         BoxSearch(c, k + 1,
                   IF t.length * t.width < best.length * best.width
                   THEN t ELSE best)

\* length and width after the search, starting from the axis-aligned box.
OrientedBox(c) ==
    LET st == ComponentStats(c) IN
    BoxSearch(c, 1, [length |-> Fixed(st.maxx - st.minx + 1),
                     width |-> Fixed(st.maxy - st.miny + 1)])

\* ratio_within(num / den, max): ratio < max && ratio > 1 / max, den > 0.
RatioWithin(num, den, max) ==
    num < max * den /\ max * num > den

\* The tests of the first pass on one raw component.
PassesFirst(c) ==
    LET st == ComponentStats(c)
        box == OrientedBox(c)
    IN  /\ ~(st.maxy - st.miny + 1 > MaxFontHeight)
        /\ ~(st.miny < params.topBorder
              \/ st.maxy > Height - params.bottomBorder)
        /\ RatioWithin(box.length, box.width, 2)

\* One iteration of the first loop: the component under the cursor.
FilterComponent ==
    /\ pc = "filter"
    /\ scan <= Len(components)
    /\ LET c == components[scan]
           st == ComponentStats(c)
       IN  IF PassesFirst(c)
           THEN /\ compBB' = Append(compBB, <<<<st.minx, st.miny>>,
                                             <<st.maxx, st.maxy>>>>)
                /\ compDimensions' = Append(compDimensions,
                                            <<st.maxx - st.minx + 1,
                                              st.maxy - st.miny + 1>>)
                /\ compMedians' = Append(compMedians, st.median)
                /\ compCenters' = Append(compCenters,
                                         <<st.maxx + st.minx,
                                           st.maxy + st.miny>>)
                /\ validComponents' = Append(validComponents, c)
           ELSE UNCHANGED <<validComponents, compBB, compCenters,
                            compMedians, compDimensions>>
    /\ scan' = scan + 1
    /\ UNCHANGED <<pc, swtVars, ccVars, firstPass, chainVars, renderVars>>
    /\ UNCHANGED callVars

\* The number of other components whose centre lies in the box of i.
ContainedCount(i) ==
    Cardinality({j \in 1 .. Len(validComponents) :
        /\ i # j
        /\ 2 * compBB[i][1][1] <= compCenters[j][1]
        /\ 2 * compBB[i][2][1] >= compCenters[j][1]
        /\ 2 * compBB[i][1][2] <= compCenters[j][2]
        /\ 2 * compBB[i][2][2] >= compCenters[j][2]})

KeptLoose(i) == ContainedCount(i) <= 2

\* if (count < 2)
Kept(i) == ContainedCount(i) < 2

\* The elements s[i] with Kept(i), in order.
RECURSIVE Compact(_, _)
Compact(s, i) ==
    IF i > Len(s) THEN <<>>
    ELSE IF Kept(i) THEN <<s[i]>> \o Compact(s, i + 1)
         ELSE Compact(s, i + 1)

\* The second loop and the replacement of the five lists.
ContainmentPass ==
    /\ pc = "filter"
    /\ scan > Len(components)
    /\ firstPass' = [comps |-> validComponents, bb |-> compBB,
                     centers |-> compCenters]
    /\ validComponents' = Compact(validComponents, 1)
    /\ compDimensions' = Compact(compDimensions, 1)
    /\ compMedians' = Compact(compMedians, 1)
    /\ compCenters' = Compact(compCenters, 1)
    /\ compBB' = Compact(compBB, 1)
    /\ pc' = "chains"
    /\ UNCHANGED <<scan, swtVars, ccVars, chainVars, renderVars>>
    /\ UNCHANGED callVars

\* SpecFilter: raw components drawn from a library of shapes placed on a
\* grid of origins.  As after findLegallyConnectedComponents, no pixel of one
\* component touches a pixel of another, the components are ordered by their
\* first pixel in raster order and each lists its pixels in raster order.
FImgW == 7
FImgH == 7
OriginStep == 3
FMaxComps == 3

Shapes ==
    {{<<0, 0>>},
     {<<0, 0>>, <<1, 0>>},
     {<<0, 0>>, <<0, 1>>},
     (0 .. 1) \X (0 .. 1),
     {<<k, k>> : k \in 0 .. 2},
     {<<0, k>> : k \in 0 .. 5} \cup {<<k, 5>> : k \in 0 .. 5}}

Origins == {0, OriginStep} \X {0, OriginStep}

Candidates ==
    {c \in {{<<x[1] + o[1], x[2] + o[2]>> : x \in sh} :
                sh \in Shapes, o \in Origins} :
        \A x \in c : x[1] < FImgW /\ x[2] < FImgH}

Touching(a, b) ==
    \E x \in a, y \in b :
        /\ x[1] - y[1] \in -1 .. 1
        /\ x[2] - y[2] \in -1 .. 1

RECURSIVE SubsetsUpTo(_, _)
SubsetsUpTo(S, n) ==
    IF n = 0 THEN {{}}
    ELSE LET prev == SubsetsUpTo(S, n - 1) IN
         prev \cup {T \cup {x} : T \in prev, x \in S}

FirstIndex(c) == MinOver(Big, {RasterIndex(x) : x \in c})

RECURSIVE InLabelOrder(_)
InLabelOrder(Cs) ==
    IF Cs = {} THEN <<>>
    ELSE LET c == CHOOSE c \in Cs :
                      \A d \in Cs : FirstIndex(c) <= FirstIndex(d)
         IN  <<InRasterOrder(c, 0)>> \o InLabelOrder(Cs \ {c})

WidthChoices == {1, 4}

BorderChoices ==
    {[darkOnLight |-> FALSE, maxStrokeLength2 |-> 16,
      topBorder |-> 0, bottomBorder |-> 0],
     [darkOnLight |-> FALSE, maxStrokeLength2 |-> 16,
      topBorder |-> 1, bottomBorder |-> 2]}

InitFilter ==
    /\ pc = "filter"
    /\ scan = 1
    /\ size = <<FImgW, FImgH>>
    /\ params \in BorderChoices
    /\ \E Cs \in SubsetsUpTo(Candidates, FMaxComps) :
         /\ \A a, b \in Cs : a # b => ~Touching(a, b)
         /\ \E w \in [Cs -> WidthChoices] :
              SWTImage = [x \in Pixels |->
                            IF \E c \in Cs : x \in c
                            THEN w[CHOOSE c \in Cs : x \in c]
                            ELSE Unset]
         /\ components = InLabelOrder(Cs)
    /\ edgeImage = <<>> /\ gradient = <<>> /\ rays = <<>>
    /\ preFilter = SWTImage
    /\ g = {}
    /\ validComponents = <<>> /\ compBB = <<>> /\ compCenters = <<>>
    /\ compMedians = <<>> /\ compDimensions = <<>> /\ firstPass = <<>>
    /\ chains = <<>> /\ loop = <<>> /\ seeds = <<>>
    /\ text = <<>> /\ verdicts = <<>>
    /\ NoCall

NextFilter == FilterComponent \/ ContainmentPass

SpecFilter == InitFilter /\ [][NextFilter]_vars

-----------------------------------------------------------------------------
(* makeChains *)

\* COM_MAX_MEDIAN_RATIO and COM_MAX_DIM_RATIO.
MaxMedianRatio == 3
MaxDimRatio == 2

\* (int) of the half-integer d / 2: the float argument of square(int x) is
\* converted towards zero.
ToInt(d) == IF d >= 0 THEN d \div 2 ELSE -((-d) \div 2)

Square(x) == x * x

\* dist of a candidate pair, in quarter units (4 * dist).
PairDist(i, j) ==
    4 * (Square(ToInt(compCenters[i][1] - compCenters[j][1]))
         + Square(ToInt(compCenters[i][2] - compCenters[j][2])))

MaxDim(i, j) ==
    Square(Max(Min(compDimensions[i][1], compDimensions[i][2]),
               Min(compDimensions[j][1], compDimensions[j][2])))

\* The doubled difference of two centres (d_x, d_y before normalisation).
Between(p, q) ==
    <<compCenters[p][1] - compCenters[q][1],
      compCenters[p][2] - compCenters[q][2]>>

Dot(u, v) == u[1] * v[1] + u[2] * v[2]
Neg(v) == <<-v[1], -v[2]>>

EligibleAnyHeight(i, j) ==
    /\ RatioWithin(compMedians[i], compMedians[j],
                   MaxMedianRatio * MaxMedianRatio)
    /\ RatioWithin(compDimensions[i][1], compDimensions[j][1], MaxDimRatio)
    /\ 5 * PairDist(i, j) < 32 * MaxDim(i, j)

\* The tests on a pair: the medians are squared widths, so the ratio bound
\* is squared; dist / maxDim < 1.6 is 5 * (4 dist) < 32 * maxDim.
Eligible(i, j) ==
    /\ RatioWithin(compMedians[i], compMedians[j],
                   MaxMedianRatio * MaxMedianRatio)
    /\ RatioWithin(compDimensions[i][2], compDimensions[j][2], MaxDimRatio)
    /\ RatioWithin(compDimensions[i][1], compDimensions[j][1], MaxDimRatio)
    /\ 5 * PairDist(i, j) < 32 * MaxDim(i, j)

\* The chain pushed for an eligible pair.  merged is written at the start of
\* every pass before it is read.
SeedChain(i, j) ==
    [p |-> i, q |-> j, components |-> <<i, j>>, dist |-> PairDist(i, j),
     direction |-> Between(i, j), merged |-> FALSE]

\* The pairs pushed by the double loop, from pair (i, j) on.
RECURSIVE EligiblePairs(_, _)
EligiblePairs(i, j) ==
    IF i > Len(validComponents) THEN <<>>
    ELSE IF j > Len(validComponents) THEN EligiblePairs(i + 1, i + 2)
    ELSE IF Eligible(i, j)
         THEN <<SeedChain(i, j)>> \o EligiblePairs(i, j + 1)
         ELSE EligiblePairs(i, j + 1)

\* std::sort with chainSortDist: some arrangement in which dist never
\* decreases; the order of chains of equal dist is not specified.
RECURSIVE SortedByDist(_, _)
SortedByDist(s, I) ==
    IF I = {} THEN {<<>>}
    ELSE UNION {{<<s[k]>> \o t : t \in SortedByDist(s, I \ {k})} :
                   k \in {k \in I : \A l \in I : s[k].dist <= s[l].dist}}

\* Pair creation, the sort by dist, and the entry into the first pass.
MakeSeeds ==
    /\ pc = "chains"
    /\ \E sorted \in SortedByDist(EligiblePairs(1, 2),
                                  DOMAIN EligiblePairs(1, 2)) :
         /\ chains' = sorted
         /\ seeds' = sorted
    /\ loop' = [i |-> 1, j |-> 0, merges |-> 0, passes |-> 0]
    /\ pc' = "merge"
    /\ UNCHANGED <<scan, swtVars, ccVars, filterVars>>
    /\ UNCHANGED renderVars
    /\ UNCHANGED callVars

SharesOneEnd(c0, c1) ==
    c0.p = c1.p \/ c0.p = c1.q \/ c0.q = c1.q \/ c0.q = c1.p

\* The branch of the if / else-if cascade taken for chains[i], chains[j]:
\* 1 p-p, 2 p-q, 3 q-p, 4 q-q.
EndMatch(ci, cj) ==
    IF ci.p = cj.p THEN 1
    ELSE IF ci.p = cj.q THEN 2
    ELSE IF ci.q = cj.p THEN 3
    ELSE IF ci.q = cj.q THEN 4
    ELSE 0

\* acos(u.v) < strictness for the unit vectors of u and v.
WithinNothing(u, v) ==
    /\ Dot(u, v) > 0
    /\ Dot(u, v) * Dot(u, v) > Dot(u, u) * Dot(v, v)

WithinStrictness(u, v) ==
    /\ Dot(u, u) > 0 /\ Dot(v, v) > 0
    /\ Dot(u, v) > 0
    /\ 4 * Dot(u, v) * Dot(u, v) > 3 * Dot(u, u) * Dot(v, v)

\* The second factor of the dot product in branch b.
FacingPlain(cj, b) == cj.direction

Facing(cj, b) == IF b \in {1, 4} THEN Neg(cj.direction) ELSE cj.direction

\* The condition under which iteration (i, j) merges.
CanMerge(ci, cj) ==
    /\ ~ci.merged /\ ~cj.merged
    /\ SharesOneEnd(ci, cj)
    /\ WithinStrictness(ci.direction, Facing(cj, EndMatch(ci, cj)))

ComponentsKept(ci, cj) == ci.components

MergedComponentsUnique(ci, cj) ==
    LET New(k) == k \notin Range(ci.components)
    IN  ci.components \o SelectSeq(cj.components, New)

\* push_back of every index of chains[j].
MergedComponents(ci, cj) == ci.components \o cj.components

MergedSameEnd(ci, cj) ==
    LET b == EndMatch(ci, cj)
        p == IF b = 1 THEN cj.q ELSE IF b = 2 THEN cj.p ELSE ci.p
        q == IF b = 3 THEN cj.q ELSE IF b = 4 THEN cj.q ELSE ci.q
    IN  [p |-> p, q |-> q, components |-> MergedComponents(ci, cj),
         dist |-> Dot(Between(p, q), Between(p, q)),
         direction |-> Between(p, q), merged |-> FALSE]

\* chains[i] after absorbing chains[j].
Merged(ci, cj) ==
    LET b == EndMatch(ci, cj)
        p == IF b = 1 THEN cj.q ELSE IF b = 2 THEN cj.p ELSE ci.p
        q == IF b = 3 THEN cj.q ELSE IF b = 4 THEN cj.p ELSE ci.q
    IN  [p |-> p, q |-> q, components |-> MergedComponents(ci, cj),
         dist |-> Dot(Between(p, q), Between(p, q)),
         direction |-> Between(p, q), merged |-> FALSE]

\* The first iteration after (i, j), in loop order, that merges; <<0, 0>>
\* when the pass has none left.
RECURSIVE NextMerge(_, _, _)
NextMerge(cs, i, j) ==
    IF i > Len(cs) THEN <<0, 0>>
    ELSE IF j >= Len(cs) THEN NextMerge(cs, i + 1, 0)
    ELSE IF i # j + 1 /\ CanMerge(cs[i], cs[j + 1]) THEN <<i, j + 1>>
    ELSE NextMerge(cs, i, j + 1)

\* The loops advance to the next merging iteration and run it.
MergeStep ==
    /\ pc = "merge"
    /\ LET nm == NextMerge(chains, loop.i, loop.j) IN
         /\ nm # <<0, 0>>
         /\ chains' = [chains EXCEPT
                         ![nm[1]] = Merged(chains[nm[1]], chains[nm[2]]),
                         ![nm[2]].merged = TRUE]
         /\ loop' = [loop EXCEPT !.i = nm[1], !.j = nm[2],
                                 !.merges = loop.merges + 1]
    /\ UNCHANGED <<pc, scan, swtVars, ccVars, filterVars, seeds>>
    /\ UNCHANGED renderVars
    /\ UNCHANGED callVars

PassResultAll(cs) ==
    LET Key == [c \in Range(cs) |-> -Len(c.components)]
    IN  SortBy(Key, cs)

\* The chains kept at the end of a pass, stable-sorted with chainSortLength.
PassResult(cs) ==
    LET Unmerged(c) == ~c.merged
        kept == SelectSeq(cs, Unmerged)
        Key == [c \in Range(kept) |-> -Len(c.components)]
    IN  SortBy(Key, kept)

\* The rest of a pass from the cursor on merges nothing: newchains replaces
\* chains, and the while condition is evaluated.
EndPass ==
    /\ pc = "merge"
    /\ NextMerge(chains, loop.i, loop.j) = <<0, 0>>
    /\ chains' = PassResult(chains)
    /\ IF loop.merges > 0
       THEN /\ loop' = [i |-> 1, j |-> 0, merges |-> 0,
                        passes |-> loop.passes + 1]
            /\ pc' = "merge"
       ELSE /\ loop' = [loop EXCEPT !.passes = loop.passes + 1]
            /\ pc' = "accept"
    /\ UNCHANGED <<scan, swtVars, ccVars, filterVars, seeds>>
    /\ UNCHANGED renderVars
    /\ UNCHANGED callVars

AcceptedLoose(c) == Len(c.components) >= 2

\* if (cit->components.size() >= 3)
Accepted(c) == Len(c.components) >= 3

\* std::sort followed by std::unique / erase.
RECURSIVE SortUnique(_)
SortUnique(S) ==
    IF S = {} THEN <<>>
    ELSE LET v == CHOOSE v \in S : \A w \in S : v <= w IN
         <<v>> \o SortUnique(S \ {v})

\* The acceptance loop and the return.
AcceptChains ==
    /\ pc = "accept"
    /\ LET kept == SelectSeq(chains, Accepted) IN
         chains' = [k \in DOMAIN kept |->
                      [kept[k] EXCEPT
                         !.components = SortUnique(Range(kept[k].components))]]
    /\ pc' = "done"
    /\ UNCHANGED <<scan, swtVars, ccVars, filterVars, loop, seeds>>
    /\ UNCHANGED renderVars
    /\ UNCHANGED callVars

\* SpecChains: the lists filterComponents hands over, for components that
\* are filled rectangles of one stroke width.  Filled rectangles of these
\* proportions pass the first filter pass, and as no two of them touch no
\* box holds the centre of another, so the containment pass keeps them all.
\* The lists are in label order (by first pixel in raster order).
ChImgW == 25
ChImgH == 25
ChMaxComps == 4

ChBoxes ==
    {<<<<0, 0>>, <<4, 4>>>>, <<<<0, 1>>, <<4, 5>>>>,
     <<<<6, 0>>, <<10, 4>>>>, <<<<6, 1>>, <<10, 5>>>>,
     <<<<6, 0>>, <<11, 4>>>>,
     <<<<12, 0>>, <<16, 4>>>>, <<<<18, 0>>, <<22, 4>>>>,
     <<<<0, 6>>, <<4, 10>>>>,
     <<<<1, 0>>, <<13, 12>>>>,
     <<<<0, 18>>, <<6, 24>>>>, <<<<8, 18>>, <<14, 24>>>>}

\* Squared stroke widths of the components: widths 1, 2 and 3.
MedianChoices == {1, 4, 9}

BoxesTouching(a, b) ==
    /\ a[1][1] <= b[2][1] + 1 /\ b[1][1] <= a[2][1] + 1
    /\ a[1][2] <= b[2][2] + 1 /\ b[1][2] <= a[2][2] + 1

RECURSIVE BoxesInLabelOrder(_)
BoxesInLabelOrder(Bs) ==
    IF Bs = {} THEN <<>>
    ELSE LET b == CHOOSE b \in Bs :
                      \A d \in Bs : RasterIndex(b[1]) <= RasterIndex(d[1])
         IN  <<b>> \o BoxesInLabelOrder(Bs \ {b})

\* The pixels of a filled rectangle, in raster order.
RectPixels(b) ==
    LET w == b[2][1] - b[1][1] + 1
        h == b[2][2] - b[1][2] + 1
    IN  [k \in 1 .. w * h |->
           <<b[1][1] + ((k - 1) % w), b[1][2] + ((k - 1) \div w)>>]

InitChains ==
    /\ pc = "chains"
    /\ scan = 0
    /\ size = <<ChImgW, ChImgH>>
    /\ params = [darkOnLight |-> FALSE, maxStrokeLength2 |-> 16,
                 topBorder |-> 0, bottomBorder |-> 0]
    /\ \E Bs \in SubsetsUpTo(ChBoxes, ChMaxComps) :
         /\ \A a \in Bs : a[2][1] < ChImgW /\ a[2][2] < ChImgH
         /\ \A a, b \in Bs : a # b => ~BoxesTouching(a, b)
         /\ \E md \in [Bs -> MedianChoices] :
              LET bb == BoxesInLabelOrder(Bs) IN
              /\ compBB = bb
              /\ compMedians = [k \in DOMAIN bb |-> md[bb[k]]]
              /\ compCenters = [k \in DOMAIN bb |->
                                  <<bb[k][2][1] + bb[k][1][1],
                                    bb[k][2][2] + bb[k][1][2]>>]
              /\ compDimensions = [k \in DOMAIN bb |->
                                     <<bb[k][2][1] - bb[k][1][1] + 1,
                                       bb[k][2][2] - bb[k][1][2] + 1>>]
              /\ validComponents = [k \in DOMAIN bb |-> RectPixels(bb[k])]
    /\ components = validComponents
    /\ firstPass = [comps |-> validComponents, bb |-> compBB,
                    centers |-> compCenters]
    /\ edgeImage = <<>> /\ gradient = <<>> /\ rays = <<>>
    /\ SWTImage = <<>> /\ preFilter = <<>>
    /\ g = {}
    /\ chains = <<>> /\ loop = <<>> /\ seeds = <<>>
    /\ text = <<>> /\ verdicts = <<>>
    /\ NoCall

NextChains == MakeSeeds \/ MergeStep \/ EndPass \/ AcceptChains

SpecChains == InitChains /\ [][NextChains]_vars

-----------------------------------------------------------------------------
(* renderChainsWithBoxes *)

\* A string is a sequence of one-character strings.
Space == {" ", "\n", "\t"}
Digits == {"0", "1", "2", "3", "4", "5", "6", "7", "8", "9"}

\* boost::algorithm::trim
RECURSIVE TrimLeft(_)
TrimLeft(s) ==
    IF s # <<>> /\ s[1] \in Space THEN TrimLeft(Tail(s)) ELSE s

RECURSIVE TrimRight(_)
TrimRight(s) ==
    IF s # <<>> /\ s[Len(s)] \in Space
    THEN TrimRight(SubSeq(s, 1, Len(s) - 1))
    ELSE s

Trim(s) == TrimRight(TrimLeft(s))

IsNonEmpty(s) == s # <<>>

\* is_number
IsNumber(s) == s # <<>> /\ \A k \in DOMAIN s : s[k] \in Digits

\* findBoundingBoxes(chains, compBB, output) for one chain: the minima are
\* folded from the image width and height, the maxima from 0.
ChainBox(c) ==
    LET ids == Range(c.components) IN
    [minx |-> MinOver(Width, {compBB[k][1][1] : k \in ids}),
     miny |-> MinOver(Height, {compBB[k][1][2] : k \in ids}),
     maxx |-> MaxOver(0, {compBB[k][2][1] : k \in ids}),
     maxy |-> MaxOver(0, {compBB[k][2][2] : k \in ids})]

\* bb.second.x - bb.first.x < output->width / maxImgWidthToTextRatio, for
\* a positive ratio.
TooNarrow(c) ==
    (ChainBox(c).maxx - ChainBox(c).minx) * params.maxImgWidthToTextRatio
        < Width

\* minHeight: folded from the height of the chain box over second.y -
\* first.y of the members.
MinHeight(c) ==
    MinOver(ChainBox(c).maxy - ChainBox(c).miny,
            {compBB[k][2][2] - compBB[k][1][2] : k \in Range(c.components)})

\* cv::Point center of the chain box: (first.x + second.x / 2,
\* first.y + second.y / 2) in int arithmetic, the division binding first.
Center(c) ==
    <<ChainBox(c).minx + ChainBox(c).maxx \div 2,
      ChainBox(c).miny + ChainBox(c).maxy \div 2>>

AsGiven(d) == d

\* The direction after the inversion for direction.x < 0.
Upright(d) == IF d[1] < 0 THEN Neg(d) ELSE d

\* absd(theta_deg) > maxAngle for theta_deg = 180 * atan2(y, x) / PI of
\* an upright direction, for maxAngle 0 or 45.  PI is 3.14159265, below
\* pi, so theta_deg at exactly 45 degrees is 45.00000005 and exceeds 45.
\* A direction with x < 0 is beyond 90 degrees.  Every comparison with the
\* NaN of a zero direction is false.
TooSteep(d, maxAngle) ==
    LET a == IF d[2] < 0 THEN -d[2] ELSE d[2] IN
    IF d = <<0, 0>> THEN FALSE
    ELSE IF maxAngle = 0 THEN a > 0 \/ d[1] < 0
    ELSE a >= d[1]

\* getBoundingBox of the member box corners when the rotation is by 0
\* degrees: minima start at the last column / row, maxima at 0, and the ROI
\* is empty when its width or height is 0.
EmptyRoi(c) ==
    LET ids == Range(c.components)
        minx == MinOver(Width - 1, {Max(compBB[k][1][1], 0) : k \in ids})
        miny == MinOver(Height - 1, {Max(compBB[k][1][2], 0) : k \in ids})
        maxx == MaxOver(0, {Min(compBB[k][2][1], Width - 1) : k \in ids})
        maxy == MaxOver(0, {Min(compBB[k][2][2], Height - 1) : k \in ids})
    IN  maxx - minx = 0 \/ maxy - miny = 0

\* The corner points are rotated by cv::transform; for a tilted chain the
\* model leaves open whether the clipped box of the rotated points is empty.
RoiOutcomes(c) ==
    IF Upright(c.direction)[2] = 0 /\ Upright(c.direction)[1] > 0
    THEN {EmptyRoi(c)}
    ELSE BOOLEAN

\* How the loop body ends for chain c before the text is read.
Verdict(c, emptyRoi) ==
    IF TooNarrow(c) THEN "span"
    ELSE IF MinHeight(c) < params.minCharacterheight THEN "height"
    ELSE IF TooSteep(Upright(c.direction), params.maxAngle) THEN "angle"
    ELSE IF emptyRoi THEN "roi"
    ELSE "ocr"

\* The texts the OCR engine may return for a patch.
OcrOutputs ==
    {<<>>, <<"\n">>,
     <<"1", "2", "3">>, <<"1", "2", "3", "\n", "\n">>,
     <<" ", "7", "7", "7", " ">>,
     <<"1", "2">>, <<"1", "2", "3", "4">>,
     <<"1", "x", "3">>, <<"1", " ", "3">>, <<"1", "2", "3", "x", "\n">>}

PushedTwice(c, out) ==
    IF Len(out) = 0 THEN <<>>
    ELSE IF Len(Trim(out)) # Len(c.components) THEN <<>>
    ELSE IF ~IsNumber(Trim(out)) THEN <<>>
    ELSE <<Trim(out), Trim(out)>>

\* The do { ... } while (0) block: the string pushed for the text out of
\* the engine, none when the sequence is empty.
Pushed(c, out) ==
    IF Len(out) = 0 THEN <<>>
    ELSE IF Len(Trim(out)) # Len(c.components) THEN <<>>
    ELSE IF ~IsNumber(Trim(out)) THEN <<>>
    ELSE <<Trim(out)>>

\* One iteration of the loop over the chain boxes.
RenderChain ==
    /\ pc = "done"
    /\ Len(verdicts) < Len(chains)
    /\ LET i == Len(verdicts) + 1
           c == chains[i]
       IN  \E emptyRoi \in RoiOutcomes(c) :
             LET v == Verdict(c, emptyRoi) IN
             /\ chains' = IF v \in {"span", "height"} THEN chains
                          ELSE [chains EXCEPT
                                  ![i].direction = Upright(c.direction)]
             /\ \E out \in IF v = "ocr" THEN OcrOutputs ELSE {<<>>} :
                  /\ text' = IF v = "ocr" THEN text \o Pushed(c, out)
                             ELSE text
                  /\ verdicts' = Append(verdicts, [end |-> v, out |-> out,
                                                 center |-> Center(c)])
    /\ UNCHANGED <<pc, scan, swtVars, ccVars, filterVars, loop, seeds>>
    /\ UNCHANGED callVars

\* The loop is over; detect returns.
RenderReturn ==
    /\ pc = "done"
    /\ Len(verdicts) = Len(chains)
    /\ pc' = "end"
    /\ UNCHANGED <<scan, swtVars, ccVars, filterVars, chainVars, renderVars>>
    /\ UNCHANGED callVars

\* SpecRender: makeChains and renderChainsWithBoxes on layouts of filled
\* rectangles of one stroke width: rows of 5x5 boxes 6 apart, a column of
\* 9x5 boxes 6 apart, a 9x15 box, and a bent column of 8x8 boxes whose
\* lower three line up only after the lowest two have merged.
RImgW == 27
RImgH == 35

RLayouts ==
    LET A == <<<<0, 0>>, <<4, 4>>>>
        B == <<<<6, 0>>, <<10, 4>>>>
        C == <<<<12, 0>>, <<16, 4>>>>
        C1 == <<<<12, 1>>, <<16, 5>>>>
        E == <<<<18, 0>>, <<22, 4>>>>
        D == <<<<0, 6>>, <<4, 10>>>>
        A2 == <<<<0, 12>>, <<4, 16>>>>
        B2 == <<<<6, 12>>, <<10, 16>>>>
        C2 == <<<<12, 12>>, <<16, 16>>>>
        P == <<<<0, 0>>, <<8, 4>>>>
        Q == <<<<0, 6>>, <<8, 10>>>>
        R == <<<<0, 12>>, <<8, 16>>>>
        R3 == <<<<0, 12>>, <<8, 26>>>>
        S == <<<<1, 0>>, <<8, 7>>>>
        T == <<<<0, 9>>, <<7, 16>>>>
        U == <<<<4, 18>>, <<11, 25>>>>
        V == <<<<6, 27>>, <<13, 34>>>>
    IN  {{}, {A, B}, {A, B, C}, {A, B, C1}, {A, B, C, E}, {A, B, C, D},
         {A, B, C, A2, B2, C2}, {P, Q, R}, {P, Q, R3}, {S, T, U, V}}

RenderParams ==
    [darkOnLight : {FALSE}, maxStrokeLength2 : {16},
     topBorder : {0}, bottomBorder : {0},
     minCharacterheight : {4, 5, 6}, maxAngle : {0, 45},
     maxImgWidthToTextRatio : {1, 2}]

\* The strings the caller's list may hold at the call.
TextBefore == {<<>>, <<<<"4", "2">>>>}

\* The lists filterComponents hands over for the boxes Bs, in label order.
Survivors(Bs) ==
    LET bb == BoxesInLabelOrder(Bs) IN
    /\ compBB = bb
    /\ compMedians = [k \in DOMAIN bb |-> 4]
    /\ compCenters = [k \in DOMAIN bb |->
                        <<bb[k][2][1] + bb[k][1][1],
                          bb[k][2][2] + bb[k][1][2]>>]
    /\ compDimensions = [k \in DOMAIN bb |->
                           <<bb[k][2][1] - bb[k][1][1] + 1,
                             bb[k][2][2] - bb[k][1][2] + 1>>]
    /\ validComponents = [k \in DOMAIN bb |-> RectPixels(bb[k])]
    /\ components = validComponents
    /\ firstPass = [comps |-> validComponents, bb |-> compBB,
                    centers |-> compCenters]

InitRender ==
    /\ pc = "chains"
    /\ scan = 0
    /\ size = <<RImgW, RImgH>>
    /\ params \in RenderParams
    /\ \E Bs \in RLayouts : Survivors(Bs)
    /\ edgeImage = <<>> /\ gradient = <<>> /\ rays = <<>>
    /\ SWTImage = <<>> /\ preFilter = <<>>
    /\ g = {}
    /\ chains = <<>> /\ loop = <<>> /\ seeds = <<>>
    /\ text \in TextBefore /\ verdicts = <<>>
    /\ NoCall

NextRender == NextChains \/ RenderChain \/ RenderReturn

SpecRender == InitRender /\ [][NextRender]_vars

\* The merge loop is sequential code: whenever its next iteration or the
\* end of its pass is possible, it is taken.
SpecRenderFair == SpecRender /\ WF_vars(MergeStep \/ EndPass)

-----------------------------------------------------------------------------
(* makeChains on nested components *)

\* SpecNested: a frame one pixel thick around a 9x9 box with a filled 5x5
\* box inside it, one pixel apart, with filled 9x9 boxes to the right and
\* below and a 5x5 box further right.  The
\* frame and the box inside are two components with one centre.  The extents
\* of a frame are those of the filled box, so it passes the first filter
\* pass, and each of the two boxes holds the centre of one other component
\* only, so the containment pass keeps both.
Ring == <<<<0, 0>>, <<8, 8>>>>

NestLayouts ==
    LET I == <<<<2, 2>>, <<6, 6>>>>
        B == <<<<10, 0>>, <<18, 8>>>>
        C == <<<<20, 2>>, <<24, 6>>>>
        D == <<<<0, 10>>, <<8, 18>>>>
    IN  {{Ring, I}, {Ring, I, B}, {Ring, I, B, C}, {Ring, B, C},
         {Ring, I, D}, {Ring, I, B, D}}

\* The pixels of the frame of box b, in raster order.
FramePixels(b) ==
    LET OnFrame(x) == x[1] \in {b[1][1], b[2][1]} \/ x[2] \in {b[1][2], b[2][2]}
    IN  SelectSeq(RectPixels(b), OnFrame)

InitNested ==
    /\ pc = "chains"
    /\ scan = 0
    /\ size = <<ChImgW, ChImgH>>
    /\ params = [darkOnLight |-> FALSE, maxStrokeLength2 |-> 16,
                 topBorder |-> 0, bottomBorder |-> 0]
    /\ \E Bs \in NestLayouts :
         \E md \in [Bs -> MedianChoices] :
              LET bb == BoxesInLabelOrder(Bs) IN
              /\ compBB = bb
              /\ compMedians = [k \in DOMAIN bb |-> md[bb[k]]]
              /\ compCenters = [k \in DOMAIN bb |->
                                  <<bb[k][2][1] + bb[k][1][1],
                                    bb[k][2][2] + bb[k][1][2]>>]
              /\ compDimensions = [k \in DOMAIN bb |->
                                     <<bb[k][2][1] - bb[k][1][1] + 1,
                                       bb[k][2][2] - bb[k][1][2] + 1>>]
              /\ validComponents = [k \in DOMAIN bb |->
                                      IF bb[k] = Ring THEN FramePixels(bb[k])
                                      ELSE RectPixels(bb[k])]
    /\ components = validComponents
    /\ firstPass = [comps |-> validComponents, bb |-> compBB,
                    centers |-> compCenters]
    /\ edgeImage = <<>> /\ gradient = <<>> /\ rays = <<>>
    /\ SWTImage = <<>> /\ preFilter = <<>>
    /\ g = {}
    /\ chains = <<>> /\ loop = <<>> /\ seeds = <<>>
    /\ text = <<>> /\ verdicts = <<>>
    /\ NoCall

SpecNested == InitNested /\ [][NextChains]_vars

-----------------------------------------------------------------------------
(* TextDetector::detect *)

\* SpecDetect: whole runs of detect on edge images of vertical bars four
\* pixels wide (edge pixels on both flanks with opposing horizontal
\* gradients) five columns apart, the blank image among them.
DImgW == 14
DImgH == 4
BarWidth == 4
BarStep == 5

BarSets == {{}, {0}, {0, 1}, {0, 1, 2}}

LeftFlank(B) == {p \in (0 .. DImgW - 1) \X (0 .. DImgH - 1) :
                   \E b \in B : p[1] = b * BarStep}
RightFlank(B) == {p \in (0 .. DImgW - 1) \X (0 .. DImgH - 1) :
                    \E b \in B : p[1] = b * BarStep + BarWidth - 1}

DetectParams ==
    [darkOnLight : {FALSE}, maxStrokeLength2 : {16},
     topBorder : {0}, bottomBorder : {0},
     minCharacterheight : {3, 4}, maxAngle : {45},
     maxImgWidthToTextRatio : {2}]

InitDetect ==
    /\ pc = "swt"
    /\ scan = 0
    /\ size = <<DImgW, DImgH>>
    /\ params \in DetectParams
    /\ \E B \in BarSets :
         /\ edgeImage = [p \in (0 .. DImgW - 1) \X (0 .. DImgH - 1) |->
                           p \in LeftFlank(B) \cup RightFlank(B)]
         /\ gradient = [p \in (0 .. DImgW - 1) \X (0 .. DImgH - 1) |->
                          IF p \in LeftFlank(B) THEN <<1, 0>>
                          ELSE IF p \in RightFlank(B) THEN <<-1, 0>>
                          ELSE NoGradient]
    /\ SWTImage = [p \in (0 .. DImgW - 1) \X (0 .. DImgH - 1) |-> Unset]
    /\ rays = <<>>
    /\ preFilter = SWTImage
    /\ g = {} /\ components = <<>>
    /\ validComponents = <<>> /\ compBB = <<>> /\ compCenters = <<>>
    /\ compMedians = <<>> /\ compDimensions = <<>> /\ firstPass = <<>>
    /\ chains = <<>> /\ loop = <<>> /\ seeds = <<>>
    /\ text \in TextBefore /\ verdicts = <<>>
    /\ NoCall

NextDetect == NextCC \/ NextFilter \/ NextRender

SpecDetect == InitDetect /\ [][NextDetect]_vars

-----------------------------------------------------------------------------
(* The entry of TextDetector::detect and processSingleImage *)

FormatAny(img) == TRUE

\* assert(input->depth == IPL_DEPTH_8U); assert(input->nChannels == 3);
FormatOk(img) == img.depth = 8 /\ img.nChannels = 3

DetectPrepareNoFill ==
    /\ pc = "detect"
    /\ IF FormatOk(image)
       THEN /\ pc' = "swt"
            /\ SWTImage' = [p \in Pixels |-> 0]
            /\ preFilter' = [p \in Pixels |-> 0]
       ELSE /\ pc' = "aborted"
            /\ UNCHANGED <<SWTImage, preFilter>>
    /\ UNCHANGED <<scan, size, edgeImage, gradient, params, rays>>
    /\ UNCHANGED <<ccVars, filterVars, chainVars, renderVars, callVars>>

\* detect up to the call of strokeWidthTransform: the assertions, the edge
\* mask and the gradients (given), and the map filled with -1.  A failed
\* assertion ends the run.
DetectPrepare ==
    /\ pc = "detect"
    /\ IF FormatOk(image)
       THEN /\ pc' = "swt"
            /\ SWTImage' = [p \in Pixels |-> Unset]
            /\ preFilter' = [p \in Pixels |-> Unset]
       ELSE /\ pc' = "aborted"
            /\ UNCHANGED <<SWTImage, preFilter>>
    /\ UNCHANGED <<scan, size, edgeImage, gradient, params, rays>>
    /\ UNCHANGED <<ccVars, filterVars, chainVars, renderVars, callVars>>

\* The numbers one image may contribute.
NumberLists ==
    {<<>>, <<123>>, <<123, 123>>, <<456, 123>>, <<123, 456>>,
     <<456, 123, 456>>, <<777, 456, 123>>}

\* pipeline::processImage on a decoded image: it fails with a negative
\* result and no output, or appends the numbers it read and returns a
\* non-negative result.
ProcessImageResults(numbers) ==
    {[res |-> -1, numbers |-> numbers]}
      \cup {[res |-> r, numbers |-> numbers \o ns] :
               r \in {0, 1}, ns \in NumberLists}

\* processSingleImage.
ProcessSingleImage ==
    /\ pc = "file"
    /\ IF ~image.decoded
       THEN res' = -1 /\ bibNumbers' = bibNumbers
       ELSE \E out \in ProcessImageResults(bibNumbers) :
              IF out.res < 0
              THEN res' = -1 /\ bibNumbers' = out.numbers
              ELSE /\ res' = out.res
                   /\ bibNumbers' = SortUnique(Range(out.numbers))
    /\ pc' = "returned"
    /\ UNCHANGED <<scan, swtVars, ccVars, filterVars, chainVars, renderVars,
                   image>>

\* SpecCall: detect called on images of any depth and channel count (on
\* the bar images of SpecDetect), and processSingleImage called on files
\* that decode or do not, with the empty list its callers pass.
ImageFormats == [decoded : {TRUE}, depth : {8, 32}, nChannels : {1, 3}]

InitCall ==
    /\ scan = 0
    /\ size = <<DImgW, DImgH>>
    /\ params \in DetectParams
    /\ SWTImage = <<>> /\ preFilter = <<>>
    /\ rays = <<>>
    /\ g = {} /\ components = <<>>
    /\ validComponents = <<>> /\ compBB = <<>> /\ compCenters = <<>>
    /\ compMedians = <<>> /\ compDimensions = <<>> /\ firstPass = <<>>
    /\ chains = <<>> /\ loop = <<>> /\ seeds = <<>>
    /\ verdicts = <<>>
    /\ bibNumbers = <<>> /\ res = 0
    /\ \/ /\ pc = "detect"
          /\ image \in ImageFormats
          /\ text \in TextBefore
          /\ \E B \in BarSets :
               /\ edgeImage = [p \in (0 .. DImgW - 1) \X (0 .. DImgH - 1) |->
                                 p \in LeftFlank(B) \cup RightFlank(B)]
               /\ gradient = [p \in (0 .. DImgW - 1) \X (0 .. DImgH - 1) |->
                                IF p \in LeftFlank(B) THEN <<1, 0>>
                                ELSE IF p \in RightFlank(B) THEN <<-1, 0>>
                                ELSE NoGradient]
       \/ /\ pc = "file"
          /\ image \in [decoded : BOOLEAN, depth : {8}, nChannels : {3}]
          /\ text = <<>>
          /\ edgeImage = <<>> /\ gradient = <<>>

NextCall == DetectPrepare \/ ProcessSingleImage \/ NextDetect

SpecCall == InitCall /\ [][NextCall]_vars

-----------------------------------------------------------------------------
(* Properties of the ray transform and the ray median filter *)

RayIds == 1 .. Len(rays)
RayPath(k) == Range(rays[k].points)
RayLen2(k) == RayLength2(rays[k].p, rays[k].q)

\* The element at index floor(n/2) of the ascending values of img on path P,
\* stated by rank: at most n/2 values lie below it and more than n/2 do not
\* exceed it.
PathMedian(P, img) ==
    LET n == Cardinality(P) IN
    CHOOSE m \in {img[x] : x \in P} :
        /\ Cardinality({x \in P : img[x] < m}) <= n \div 2
        /\ Cardinality({x \in P : img[x] <= m}) > n \div 2

C7_PathBelowLength ==
    \A k \in RayIds : \A x \in RayPath(k) :
        SWTImage[x] # Unset /\ SWTImage[x] <= RayLen2(k)

C7_NeverRaised ==
    \A x \in Pixels :
        SWTImage[x] # Unset =>
            SWTImage'[x] # Unset /\ SWTImage'[x] <= SWTImage[x]

\* C7: in every state, each pixel on the path of each accepted ray holds a
\* set value that is at most that ray's length (so right after
\* strokeWidthTransform and in the final map), and no step of either stage
\* raises a value that is set.
C7_MinUpdate == []C7_PathBelowLength /\ [][C7_NeverRaised]_vars

\* A later, shorter ray has lowered a pixel on a longer ray's path, while
\* another pixel of that path still holds the longer ray's own length.
C7_Witness ==
    /\ pc = "median"
    /\ \E k \in RayIds : \E x, y \in RayPath(k) :
          /\ SWTImage[x] < RayLen2(k)
          /\ SWTImage[y] = RayLen2(k)

\* C8: once SWTMedianFilter has processed all rays, every pixel on every
\* accepted ray's path is at most the median that path had in the map the
\* filter received.
C8_BelowPreFilterMedian ==
    pc = "components" =>
        \A k \in RayIds : \A x \in RayPath(k) :
            SWTImage[x] <= PathMedian(RayPath(k), preFilter)

\* The filter has finished, and it clamped a pixel of a ray whose path shares
\* pixels with another ray of a different length.
C8_Witness ==
    /\ pc = "components"
    /\ \E k, l \in RayIds :
          /\ RayLen2(k) # RayLen2(l)
          /\ RayPath(k) \cap RayPath(l) # {}
          /\ \E x \in RayPath(k) :
                /\ preFilter[x] > PathMedian(RayPath(k), preFilter)
                /\ SWTImage[x] < preFilter[x]

-----------------------------------------------------------------------------
(* Properties of the component graph *)

\* C1: every edge of the component graph joins two pixels whose stroke
\* widths are within a factor of 3 of each other, max(a/b, b/a) <= 3.
C1_EdgesWithinRatio ==
    \A e \in g : \A u, v \in e :
        SWTImage[u] <= 9 * SWTImage[v]

\* C13: the components returned by findLegallyConnectedComponents are
\* non-empty and pairwise disjoint, list no pixel twice, hold only pixels
\* with a set value and together hold every pixel with a set value.
C13_ComponentsPartition ==
    pc = "filter" =>
        /\ \A k \in DOMAIN components :
             /\ components[k] # <<>>
             /\ \A a, b \in DOMAIN components[k] :
                  a # b => components[k][a] # components[k][b]
             /\ \A a \in DOMAIN components[k] :
                  SWTImage[components[k][a]] # -1
        /\ \A k, l \in DOMAIN components :
             k # l => Range(components[k]) \cap Range(components[l]) = {}
        /\ \A p \in DOMAIN SWTImage :
             SWTImage[p] # -1 =>
                 \E k \in DOMAIN components : p \in Range(components[k])

\* Two components were returned, one of several pixels, and some pixel of
\* the map is unset.
C13_Witness ==
    /\ pc = "filter"
    /\ Len(components) >= 2
    /\ \E k \in DOMAIN components : Len(components[k]) >= 2
    /\ \E p \in DOMAIN SWTImage : SWTImage[p] = -1

-----------------------------------------------------------------------------
(* Properties of the component filter *)

\* The extents of the member pixels themselves, rotated by the k-th angle.
RotatedExtent(c, k) ==
    LET X == {RotX(x, k) : x \in Range(c)}
        Y == {RotY(x, k) : x \in Range(c)}
        Hi(S) == CHOOSE v \in S : \A w \in S : v >= w
        Lo(S) == CHOOSE v \in S : \A w \in S : v <= w
    IN  [length |-> Hi(X) - Lo(X) + Fixed(1),
         width |-> Hi(Y) - Lo(Y) + Fixed(1)]

\* The box of smallest area among the axis-aligned box and the boxes of the
\* sampled angles (the first of them in sampling order).
RECURSIVE MinimalBox(_, _, _)
MinimalBox(c, k, best) ==
    IF k > Len(CosT) THEN best
    ELSE LET t == RotatedExtent(c, k) IN
         MinimalBox(c, k + 1,
                    IF t.length * t.width < best.length * best.width
                    THEN t ELSE best)

AxisBox(c) ==
    LET X == {x[1] : x \in Range(c)}
        Y == {x[2] : x \in Range(c)}
        Hi(S) == CHOOSE v \in S : \A w \in S : v >= w
        Lo(S) == CHOOSE v \in S : \A w \in S : v <= w
    IN  [minx |-> Lo(X), maxx |-> Hi(X), miny |-> Lo(Y), maxy |-> Hi(Y)]

\* C9: every retained component has length / width of its minimal-area
\* rotated bounding box strictly between 0.5 and 2.0.
C9_AspectInBand ==
    \A i \in 1 .. Len(validComponents) :
        LET c == validComponents[i]
            b == AxisBox(c)
            box == MinimalBox(c, 1,
                       [length |-> Fixed(b.maxx - b.minx + 1),
                        width |-> Fixed(b.maxy - b.miny + 1)])
        IN  2 * box.length > box.width /\ box.length < 2 * box.width

\* The centre of component d lies in the bounding box of component c,
\* bounds included.
CentreInBox(c, d) ==
    LET b == AxisBox(c)
        e == AxisBox(d)
    IN  /\ 2 * b.minx <= e.minx + e.maxx /\ e.minx + e.maxx <= 2 * b.maxx
        /\ 2 * b.miny <= e.miny + e.maxy /\ e.miny + e.maxy <= 2 * b.maxy

\* The number of components of the list other than the i-th whose centre
\* lies in the box of the i-th.
CentresInside(list, i) ==
    Cardinality({j \in DOMAIN list : j # i /\ CentreInBox(list[i], list[j])})

\* C10: after the containment pass no retained component's box holds the
\* centres of two or more other retained components, and the retained
\* components are, in order, exactly the first-pass survivors whose box
\* holds the centres of fewer than two other first-pass survivors.
C10_Containment ==
    pc = "chains" =>
        /\ \A i \in DOMAIN validComponents :
              CentresInside(validComponents, i) < 2
        /\ \E keep \in SUBSET DOMAIN firstPass.comps :
              /\ keep = {i \in DOMAIN firstPass.comps :
                            CentresInside(firstPass.comps, i) < 2}
              /\ Len(validComponents) = Cardinality(keep)
              /\ \A i \in keep :
                    validComponents[Cardinality({j \in keep : j <= i})]
                        = firstPass.comps[i]

\* The pass has discarded a first-pass survivor whose box holds the centres
\* of two others, and has kept those two.
C10_Witness ==
    /\ pc = "chains"
    /\ Len(validComponents) >= 2
    /\ \E i \in DOMAIN firstPass.comps :
          /\ CentresInside(firstPass.comps, i) >= 2
          /\ firstPass.comps[i] \notin Range(validComponents)

-----------------------------------------------------------------------------
(* Properties of chain formation *)

\* The doubled centre of the k-th surviving component, from its box.
BoxCentre(k) ==
    <<compBB[k][1][1] + compBB[k][2][1], compBB[k][1][2] + compBB[k][2][2]>>

BoxWidth(k) == compBB[k][2][1] - compBB[k][1][1] + 1
BoxHeight(k) == compBB[k][2][2] - compBB[k][1][2] + 1

\* Four times the squared Euclidean distance of two centres.
CentreDistance4(i, j) ==
    (BoxCentre(i)[1] - BoxCentre(j)[1]) * (BoxCentre(i)[1] - BoxCentre(j)[1])
    + (BoxCentre(i)[2] - BoxCentre(j)[2]) * (BoxCentre(i)[2] - BoxCentre(j)[2])

\* num / den strictly inside (1 / r, r).
StrictlyInside(num, den, r) == num < r * den /\ den < r * num

\* The seed rule: medians within (1/3, 3) (squared: (1/9, 9)), both
\* dimension ratios within (1/2, 2), distance / maxDim < 1.6.
SeedRule(i, j) ==
    LET mi == IF BoxWidth(i) < BoxHeight(i) THEN BoxWidth(i) ELSE BoxHeight(i)
        mj == IF BoxWidth(j) < BoxHeight(j) THEN BoxWidth(j) ELSE BoxHeight(j)
        mm == IF mi > mj THEN mi ELSE mj
    IN  /\ StrictlyInside(compMedians[i], compMedians[j], 9)
        /\ StrictlyInside(BoxHeight(i), BoxHeight(j), 2)
        /\ StrictlyInside(BoxWidth(i), BoxWidth(j), 2)
        /\ 5 * CentreDistance4(i, j) < 32 * mm * mm

\* C2: a seed chain exists for the pair i < j exactly when the median ratio
\* is strictly inside (1/3, 3), both dimension ratios are strictly inside
\* (1/2, 2) and distance / maxDim < 1.6 for the squared Euclidean distance
\* of the centres; the seed's dist is that distance, its endpoints are
\* p = i, q = j and its component list is {i, j}.
C2_SeedsExact ==
    pc \in {"merge", "accept", "done"} =>
        /\ \A i, j \in DOMAIN compBB :
             i < j => ((\E k \in DOMAIN seeds :
                           seeds[k].p = i /\ seeds[k].q = j)
                       <=> SeedRule(i, j))
        /\ \A k \in DOMAIN seeds :
             /\ seeds[k].p < seeds[k].q
             /\ seeds[k].components = <<seeds[k].p, seeds[k].q>>
             /\ seeds[k].dist = CentreDistance4(seeds[k].p, seeds[k].q)

\* The angle between the vectors u and v is below pi / 6.
AngleBelowPi6(u, v) ==
    LET d == u[1] * v[1] + u[2] * v[2]
        uu == u[1] * u[1] + u[2] * u[2]
        vv == v[1] * v[1] + v[2] * v[2]
    IN  uu > 0 /\ vv > 0 /\ d > 0 /\ 4 * d * d > 3 * uu * vv

ShareAnEnd(c, d) == {c.p, c.q} \cap {d.p, d.q} # {}

\* C3 as stated: at the fixpoint of the merge loop no two distinct chains
\* share an endpoint index while the angle between their directions is
\* below pi / 6.
C3_NoAlignedPair ==
    pc = "accept" =>
        \A a, b \in DOMAIN chains :
            a # b /\ ShareAnEnd(chains[a], chains[b]) =>
                ~AngleBelowPi6(chains[a].direction, chains[b].direction)

\* The direction of d as the merge test of c against d reads it: reversed
\* when the first matching endpoint pair, in the order p-p, p-q, q-p, q-q,
\* is p-p or q-q.
SignCorrected(c, d) ==
    IF c.p = d.p \/ (c.p # d.q /\ c.q # d.p /\ c.q = d.q)
    THEN <<-d.direction[1], -d.direction[2]>>
    ELSE d.direction

\* C3: at the fixpoint of the merge loop no two distinct chains share an
\* endpoint index while the sign-corrected angle between their directions
\* is below pi / 6.
C3_NoMergeablePair ==
    pc = "accept" =>
        \A a, b \in DOMAIN chains :
            a # b /\ ShareAnEnd(chains[a], chains[b]) =>
                ~AngleBelowPi6(chains[a].direction,
                               SignCorrected(chains[a], chains[b]))

\* The fixpoint is reached after a merge, with two chains left that share
\* an endpoint.
C3_Witness ==
    /\ pc = "accept"
    /\ \E k \in DOMAIN chains : Len(chains[k].components) >= 4
    /\ \E a, b \in DOMAIN chains :
         a # b /\ ShareAnEnd(chains[a], chains[b])

\* C4: the chains returned are, in order, the fixpoint chains whose set of
\* component indices has at least 3 members, and every returned component
\* list is strictly ascending.
C4_Acceptance ==
    [][pc = "accept" /\ pc' = "done" =>
         LET keep == {k \in DOMAIN chains :
                        Cardinality(Range(chains[k].components)) >= 3}
         IN  /\ Len(chains') = Cardinality(keep)
             /\ \A k \in keep :
                  LET r == chains'[Cardinality({l \in keep : l <= k})] IN
                  /\ r.p = chains[k].p /\ r.q = chains[k].q
                  /\ Range(r.components) = Range(chains[k].components)
             /\ \A k \in DOMAIN chains' :
                  \A a, b \in DOMAIN chains'[k].components :
                      a < b => chains'[k].components[a]
                                   < chains'[k].components[b]]_vars

\* A chain has been returned and a seed pair is in no returned chain: the
\* chain that held it was discarded.
C4_Witness ==
    /\ pc = "done"
    /\ chains # <<>>
    /\ \E s \in DOMAIN seeds :
         \A k \in DOMAIN chains :
             ~({seeds[s].p, seeds[s].q} \subseteq Range(chains[k].components))

\* C5: in every state of makeChains the endpoints p and q of every chain
\* are elements of the chain's component list.
C5_EndpointsListed ==
    \A k \in DOMAIN chains :
        /\ chains[k].p \in Range(chains[k].components)
        /\ chains[k].q \in Range(chains[k].components)

\* Inside a pass, after its second merge.
C5_Witness ==
    /\ pc = "merge"
    /\ loop.merges >= 2
    /\ \E k \in DOMAIN chains : Len(chains[k].components) >= 6

\* C6: a chain j is marked merged only in a step in which a chain i absorbs
\* its component list, both were unmerged, they share exactly one endpoint
\* index and the sign-corrected angle between their directions is below
\* pi / 6.
C6_MergeGuard ==
    [][\A j \in DOMAIN chains :
         (j \in DOMAIN chains' /\ chains'[j].merged /\ ~chains[j].merged) =>
             \E i \in DOMAIN chains \ {j} :
                 /\ chains'[i].components
                        = chains[i].components \o chains[j].components
                 /\ ~chains[i].merged
                 /\ Cardinality({chains[i].p, chains[i].q}
                                \cap {chains[j].p, chains[j].q}) = 1
                 /\ AngleBelowPi6(chains[i].direction,
                                  SignCorrected(chains[i], chains[j]))]_vars

\* A merge through the p-p branch has just run: the absorbing chain's p is
\* the absorbed chain's q.
C6_Witness ==
    /\ pc = "merge"
    /\ loop.merges >= 1
    /\ loop.j \in DOMAIN chains
    /\ chains[loop.j].merged
    /\ chains[loop.i].p = chains[loop.j].q

-----------------------------------------------------------------------------
(* Properties of the text output *)

\* out is n decimal digits between two runs of white space.
DigitsInBlanks(out, n) ==
    \E a \in 0 .. Len(out) :
        /\ a + n <= Len(out)
        /\ \A k \in 1 .. a : out[k] \in {" ", "\n", "\t"}
        /\ \A k \in a + 1 .. a + n :
             out[k] \in {"0", "1", "2", "3", "4", "5", "6", "7", "8", "9"}
        /\ \A k \in a + n + 1 .. Len(out) : out[k] \in {" ", "\n", "\t"}

\* C11: a step of renderChainsWithBoxes appends at most one string; an
\* appended string is non-empty, all decimal digits and as long as the
\* chain's component set; a chain handed to the engine contributes its
\* digits exactly when the engine's text is that many digits between
\* white space, and nothing when it is empty, of another trimmed length
\* or holds a non-digit.
C11_DigitStrings ==
    [][Len(verdicts') = Len(verdicts) + 1 =>
         LET i == Len(verdicts')
             n == Cardinality(Range(chains[i].components))
             out == verdicts'[i].out
         IN  IF verdicts'[i].end = "ocr" /\ n > 0 /\ DigitsInBlanks(out, n)
             THEN /\ Len(text') = Len(text) + 1
                  /\ SubSeq(text', 1, Len(text)) = text
                  /\ Len(text'[Len(text')]) = n
                  /\ \A k \in 1 .. n :
                       text'[Len(text')][k]
                           \in {"0", "1", "2", "3", "4",
                                "5", "6", "7", "8", "9"}
                  /\ \E a \in 0 .. Len(out) - n :
                       text'[Len(text')] = SubSeq(out, a + 1, a + n)
             ELSE text' = text]_vars

\* The engine's text " 777 " has just been trimmed and appended for a chain
\* of three components.
C11_Witness ==
    /\ pc = "done"
    /\ verdicts # <<>>
    /\ verdicts[Len(verdicts)].end = "ocr"
    /\ verdicts[Len(verdicts)].out = <<" ", "7", "7", "7", " ">>
    /\ text # <<>>
    /\ text[Len(text)] = <<"7", "7", "7">>

-----------------------------------------------------------------------------
(* Properties of the recorded component geometry *)

\* C12: the dimensions recorded for a surviving component are the length
\* and width of the box selected by the angle search.
C12_OrientedDimensions ==
    \A i \in DOMAIN validComponents :
        /\ Fixed(compDimensions[i][1]) = OrientedBox(validComponents[i]).length
        /\ Fixed(compDimensions[i][2]) = OrientedBox(validComponents[i]).width

\* The value of rank n \div 2 (from 0) among the map values of the members.
MemberMedian(c) ==
    CHOOSE v \in {SWTImage[x] : x \in Range(c)} :
        /\ Cardinality({a \in DOMAIN c : SWTImage[c[a]] < v}) <= Len(c) \div 2
        /\ Cardinality({a \in DOMAIN c : SWTImage[c[a]] <= v}) > Len(c) \div 2

\* C14: at every index k the five lists describe one component: the box is
\* (min x, min y)-(max x, max y) over the member pixels of validComponents[k],
\* the centre (stored doubled) is its midpoint, and the median and the
\* dimensions are those of the same members; also after the containment
\* pass has compacted the lists.
C14_ListsAligned ==
    /\ Len(compBB) = Len(validComponents)
    /\ Len(compCenters) = Len(validComponents)
    /\ Len(compMedians) = Len(validComponents)
    /\ Len(compDimensions) = Len(validComponents)
    /\ \A k \in DOMAIN validComponents :
         LET b == AxisBox(validComponents[k]) IN
         /\ compBB[k] = <<<<b.minx, b.miny>>, <<b.maxx, b.maxy>>>>
         /\ compCenters[k] = <<b.minx + b.maxx, b.miny + b.maxy>>
         /\ compMedians[k] = MemberMedian(validComponents[k])
         /\ compDimensions[k] = <<b.maxx - b.minx + 1, b.maxy - b.miny + 1>>

\* The containment pass has dropped a component in front of a kept one, so
\* the kept one has moved to a lower index.
C14_Witness ==
    /\ pc = "chains"
    /\ \E k \in DOMAIN validComponents :
         /\ validComponents[k] # firstPass.comps[k]
         /\ \E l \in DOMAIN validComponents :
              compMedians[l] # compMedians[k]

\* -------------------------------------------------------------------------
\* Properties of whole scenarios
\* -------------------------------------------------------------------------

\* Exactly three surviving components of equal dimensions and median whose
\* centres lie on one horizontal line at equal steps, adjacent ones passing
\* the seed rule.
ThreeInARow ==
    /\ Len(validComponents) = 3
    /\ \A k \in 2 .. 3 :
         /\ BoxWidth(k) = BoxWidth(1) /\ BoxHeight(k) = BoxHeight(1)
         /\ compMedians[k] = compMedians[1]
         /\ BoxCentre(k)[2] = BoxCentre(1)[2]
    /\ BoxCentre(2)[1] - BoxCentre(1)[1] = BoxCentre(3)[1] - BoxCentre(2)[1]
    /\ BoxCentre(2)[1] # BoxCentre(1)[1]
    /\ SeedRule(1, 2) /\ SeedRule(2, 3)

\* The width and height thresholds as renderChainsWithBoxes measures them,
\* for the chain of all components: corner-to-corner extents.
ThresholdsMet ==
    LET K == DOMAIN compBB
        span == MaxOver(0, {compBB[k][2][1] : k \in K})
                - MinOver(Width, {compBB[k][1][1] : k \in K})
    IN  /\ span * params.maxImgWidthToTextRatio >= Width
        /\ \A k \in K :
             compBB[k][2][2] - compBB[k][1][2] >= params.minCharacterheight

ThreeDigits(s) == Len(s) = 3 /\ \A k \in DOMAIN s : s[k] \in Digits

Tall(t) ==
    /\ Len(validComponents) >= 2
    /\ \A k \in DOMAIN validComponents \ {t} :
         compDimensions[t][2] = 3 * compDimensions[k][2]

\* C16: a component three times as high as every other one fails the
\* height-ratio test against each of them and is in no seed chain; when there
\* are three components, one of them such, no chain ever holds three
\* components, makeChains returns no chain and the text stays as it was.
C16_TallOneOut ==
    \A t \in DOMAIN validComponents :
      Tall(t) =>
        /\ \A k \in DOMAIN validComponents \ {t} :
             ~StrictlyInside(compDimensions[t][2], compDimensions[k][2], 2)
        /\ \A s \in DOMAIN seeds : t \notin Range(seeds[s].components)
        /\ Len(validComponents) = 3 =>
             /\ \A c \in DOMAIN chains : Len(chains[c].components) < 3
             /\ pc \in {"done", "end"} => chains = <<>>
             /\ text \in TextBefore

\* The two equal components were paired, and the chain was discarded.
C16_Witness ==
    /\ \E t \in DOMAIN validComponents : Tall(t)
    /\ Len(validComponents) = 3
    /\ Len(seeds) = 1
    /\ pc = "end"
    /\ text = <<<<"4", "2">>>>

\* No pixel of the edge image is set.
Blank == \A p \in DOMAIN edgeImage : ~edgeImage[p]

\* C17: on a blank image no ray is accepted, every pixel of the map stays
\* at the sentinel, there are no raw and no surviving components, no seed
\* chains, no returned chains and no output strings, and the merge loop
\* makes exactly one pass.
C17_BlankImage ==
    Blank =>
      /\ rays = <<>>
      /\ \A p \in DOMAIN SWTImage : SWTImage[p] = Unset
      /\ components = <<>>
      /\ validComponents = <<>>
      /\ seeds = <<>>
      /\ chains = <<>>
      /\ verdicts = <<>> /\ text \in TextBefore
      /\ pc = "merge" => loop.passes = 0
      /\ pc \in {"accept", "done", "end"} => loop.passes = 1

C17_Witness ==
    /\ Blank
    /\ DOMAIN edgeImage # {}
    /\ pc = "end"
    /\ loop.passes = 1 /\ loop.merges = 0

\* -------------------------------------------------------------------------
\* Termination of the merge loop
\* -------------------------------------------------------------------------

\* The end of a pass: with merges the pool shrinks and holds only chains
\* that were unmerged in the pass, the passes with merges so far are at
\* most as many as the seeds, and the loop goes on; without merges the loop
\* is left.
PassEnds ==
    pc = "merge" /\ loop'.passes = loop.passes + 1 =>
      /\ \A k \in DOMAIN chains' :
           \E l \in DOMAIN chains : ~chains[l].merged /\ chains'[k] = chains[l]
      /\ IF loop.merges > 0
         THEN /\ Len(chains') < Len(chains) /\ pc' = "merge"
              /\ loop'.passes <= Len(seeds)
         ELSE chains' = chains /\ pc' = "accept"

\* C18: the merge loop terminates: a pass with at least one merge leaves
\* fewer chains in the pool than it started with, a merged chain is not in
\* the pool of the next pass, the loop is left after the first pass without
\* a merge, and the passes with merges number at most the seeds.
C18_MergeLoopTerminates ==
    /\ [][PassEnds]_vars
    /\ (pc = "merge" ~> pc = "accept")

\* The loop was left after two passes with merges and one without.
C18_Witness ==
    /\ pc = "accept"
    /\ loop.passes = 3
    /\ Len(seeds) >= 3

\* -------------------------------------------------------------------------
\* Properties of the geometric tests before recognition
\* -------------------------------------------------------------------------

\* The three tests on chain c as stated: the span of the union box against
\* the image width, the least member height in pixel rows, and the angle of
\* the direction turned to x >= 0 (maxAngle is 0 or 45).
SpanOk(c) ==
    LET K == Range(c.components) IN
    (MaxOver(0, {compBB[k][2][1] : k \in K})
       - MinOver(Width, {compBB[k][1][1] : k \in K}))
      * params.maxImgWidthToTextRatio >= Width

LeastHeight(c) ==
    MinOver(Height, {compDimensions[k][2] : k \in Range(c.components)})

AngleOk(c) ==
    LET d == IF c.direction[1] < 0 THEN Neg(c.direction) ELSE c.direction
        a == IF d[2] < 0 THEN -d[2] ELSE d[2]
    IN  IF params.maxAngle = 0 THEN a = 0 /\ d[1] > 0 ELSE a <= d[1] /\ d[1] > 0

\* C19: a chain reaches the engine only if its span is at least
\* imageWidth / maxImgWidthToTextRatio, its least member height is at least
\* minCharacterHeight and its angle is at most maxAngle; a chain whose
\* least member height equals minCharacterHeight is not rejected for its
\* height; a chain failing a test adds no text.
C19_GeometricTests ==
    [][Len(verdicts') = Len(verdicts) + 1 =>
         LET i == Len(verdicts')
             c == chains[i]
             pass == /\ SpanOk(c)
                     /\ LeastHeight(c) >= params.minCharacterheight
                     /\ AngleOk(c)
         IN  /\ verdicts'[i].end = "ocr" => pass
             /\ ~pass => text' = text
             /\ SpanOk(c) /\ LeastHeight(c) = params.minCharacterheight =>
                  verdicts'[i].end # "height"]_vars

\* -------------------------------------------------------------------------
\* Properties of the result list
\* -------------------------------------------------------------------------

\* C20: the list changes only when the loop finishes a chain, chains are
\* finished in the order makeChains returned them, and finishing one leaves
\* the list as it was or appends one string at its end: the strings the
\* caller had in the list stay in front, nothing is reordered and no
\* duplicate is removed.
C20_AppendInChainOrder ==
    [][\/ /\ verdicts' = verdicts
          /\ text' = text
       \/ /\ verdicts' = Append(verdicts, verdicts'[Len(verdicts')])
          /\ Len(verdicts') <= Len(chains)
          /\ \/ text' = text
             \/ text' = Append(text, Trim(verdicts'[Len(verdicts')].out))]_vars

\* Two chains read as the same number: both strings are in the list, behind
\* the caller's string, which sorts after them.
C20_Witness ==
    /\ pc = "end"
    /\ Len(chains) = 2
    /\ text = <<<<"4", "2">>, <<"1", "2", "3">>, <<"1", "2", "3">>>>

\* -------------------------------------------------------------------------
\* Input errors
\* -------------------------------------------------------------------------

\* C21: when the file does not decode or processing returns a negative
\* result, processSingleImage returns a negative value and the list of
\* numbers is as the caller passed it; detect on an image that is not 8-bit
\* with 3 channels ends before any stage has run and leaves the text list
\* as it was.
C21_InputErrors ==
    /\ pc = "returned" /\ ~image.decoded => res < 0
    /\ pc = "returned" /\ res < 0 => bibNumbers = <<>>
    /\ image.depth # 8 \/ image.nChannels # 3 =>
         /\ pc \in {"detect", "aborted"}
         /\ SWTImage = <<>> /\ rays = <<>> /\ components = <<>>
         /\ chains = <<>> /\ verdicts = <<>>
         /\ text \in TextBefore

C21_Witness ==
    /\ pc = "aborted"
    /\ image.depth = 8 /\ image.nChannels = 1
    /\ \E p \in DOMAIN edgeImage : edgeImage[p]
    /\ text = <<<<"4", "2">>>>

\* -------------------------------------------------------------------------
\* Writers of the stroke width map
\* -------------------------------------------------------------------------

\* C22: detect starts the map at -1 at every pixel; afterwards only steps of
\* strokeWidthTransform and SWTMedianFilter change a value of it, and every
\* step of the later stages leaves the whole map as it was.
C22_MapWriters ==
    [][/\ pc = "detect" /\ pc' = "swt" =>
            /\ DOMAIN SWTImage' = Pixels
            /\ \A p \in Pixels : SWTImage'[p] = -1
       /\ pc \notin {"detect", "swt", "median"} => SWTImage' = SWTImage
       /\ pc \in {"swt", "median"} => DOMAIN SWTImage' = DOMAIN SWTImage]_vars

\* All stages have run on a map that the ray stages wrote in part.
C22_Witness ==
    /\ pc = "end"
    /\ image.depth = 8
    /\ Len(verdicts) = 1
    /\ SWTImage # <<>>
    /\ \E p \in DOMAIN SWTImage : SWTImage[p] = 9
    /\ \E p \in DOMAIN SWTImage : SWTImage[p] = -1

\* -------------------------------------------------------------------------
\* The effect of one merge
\* -------------------------------------------------------------------------

\* The endpoints of i after absorbing j, by the first matching case.
EndsAfter(ci, cj) ==
    IF ci.p = cj.p THEN <<cj.q, ci.q>>
    ELSE IF ci.p = cj.q THEN <<cj.p, ci.q>>
    ELSE IF ci.q = cj.p THEN <<ci.p, cj.q>>
    ELSE <<ci.p, cj.p>>

\* A step that merges chain j into chain i.
MergeEffect ==
    pc = "merge" /\ loop' # loop /\ loop'.passes = loop.passes =>
      LET i == loop'.i
          j == loop'.j
          e == EndsAfter(chains[i], chains[j])
          d == <<BoxCentre(e[1])[1] - BoxCentre(e[2])[1],
                 BoxCentre(e[1])[2] - BoxCentre(e[2])[2]>>
      IN  /\ i # j
          /\ ~chains[i].merged /\ ~chains[j].merged
          /\ chains[i].q = chains[j].q \/ chains[i].q = chains[j].p
               \/ chains[i].p = chains[j].q \/ chains[i].p = chains[j].p
          /\ chains'[i].p = e[1] /\ chains'[i].q = e[2]
          /\ chains'[i].components
               = chains[i].components \o chains[j].components
          /\ chains'[i].direction = d
          /\ chains'[i].dist = d[1] * d[1] + d[2] * d[2]
          /\ ~chains'[i].merged
          /\ chains'[j] = [chains[j] EXCEPT !.merged = TRUE]
          /\ DOMAIN chains' = DOMAIN chains
          /\ \A k \in DOMAIN chains \ {i, j} : chains'[k] = chains[k]

\* The end of a pass keeps no chain flagged merged.
MergedLeave ==
    pc = "merge" /\ loop'.passes = loop.passes + 1 =>
      \A k \in DOMAIN chains' :
        \E l \in DOMAIN chains : ~chains[l].merged /\ chains'[k] = chains[l]

\* C23: a merge of chain j into chain i moves the matched endpoint of i to
\* the opposite endpoint of j (p-p: i.p := j.q; p-q: i.p := j.p; q-p:
\* i.q := j.q; q-q: i.q := j.p), keeps the other endpoint, appends the
\* component list of j, recomputes direction and dist from the centres of
\* the new endpoints and flags j merged; a flagged chain takes part in no
\* later merge of the pass and is not in the pool of the next pass; every
\* other chain is unchanged.
C23_MergeEffect == [][MergeEffect /\ MergedLeave]_vars

\* Chain i has just absorbed chain j at its q end, which was the q end of j.
C23_Witness ==
    /\ pc = "merge"
    /\ loop.merges >= 1
    /\ loop.j \in DOMAIN chains
    /\ chains[loop.j].merged
    /\ chains[loop.i].q = chains[loop.j].p
    /\ chains[loop.j].q \in Range(chains[loop.i].components)
    /\ chains[loop.i].p # chains[loop.j].q

-----------------------------------------------------------------------------
(* The rays of strokeWidthTransform *)

\* The pixel k steps from p along the polarity-corrected gradient of p.
C24_At(p, k) ==
    LET s == IF params.darkOnLight THEN -1 ELSE 1
    IN  <<p[1] + k * s * gradient[p][1], p[2] + k * s * gradient[p][2]>>

\* The number of steps after which the walk from p ends: the first pixel that
\* is outside the image or an edge pixel.
C24_Steps(p) ==
    CHOOSE k \in 1 .. (Width + Height) :
        /\ ~InImage(C24_At(p, k)) \/ edgeImage[C24_At(p, k)]
        /\ \A j \in 1 .. (k - 1) :
              InImage(C24_At(p, j)) /\ ~edgeImage[C24_At(p, j)]

\* The ray of p leaves the image, or meets a gradient that does not oppose its
\* own, or is longer than maxStrokeLength.
C24_Rejected(p) ==
    LET k == C24_Steps(p)
        x == C24_At(p, k)
    IN  \/ ~InImage(x)
        \/ gradient[p][1] * gradient[x][1]
             + gradient[p][2] * gradient[x][2] >= 0
        \/ k * k * (gradient[p][1] * gradient[p][1]
                      + gradient[p][2] * gradient[p][2])
             > params.maxStrokeLength2

C24_RayStep ==
    (pc = "swt" /\ pc' = "swt" /\ scan' # scan) =>
        LET p == PixelAt(scan' - 1)
            k == C24_Steps(p)
        IN  /\ edgeImage[p]
            /\ \A r \in Range(rays) : r.p # p
            /\ \/ rays' = rays /\ SWTImage' = SWTImage
               \/ /\ rays' = Append(rays, rays'[Len(rays')])
                  /\ rays'[Len(rays')].p = p
                  /\ rays'[Len(rays')].q = C24_At(p, k)
                  /\ InImage(C24_At(p, k)) /\ edgeImage[C24_At(p, k)]
                  /\ rays'[Len(rays')].points =
                        [n \in 1 .. (k + 1) |-> C24_At(p, n - 1)]
            /\ C24_Rejected(p) => rays' = rays /\ SWTImage' = SWTImage

\* C24: every edge pixel starts at most one ray, which ends at the first edge
\* pixel it enters or when it leaves the image; a ray that leaves the image,
\* fails the opposing-gradient test there or is longer than maxStrokeLength
\* changes no value of the map and is not added to the ray list.
C24_RayFrame == [][C24_RayStep]_vars

\* The transform has scanned a ray of each rejected kind and an accepted one,
\* and the map holds nothing but what the accepted rays wrote.
C24_Witness ==
    /\ pc = "swt"
    /\ rays # <<>>
    /\ LET Scanned == {x \in Pixels : edgeImage[x] /\ RasterIndex(x) < scan}
       IN  /\ \E x \in Scanned : ~InImage(C24_At(x, C24_Steps(x)))
           /\ \E x \in Scanned :
                 /\ InImage(C24_At(x, C24_Steps(x)))
                 /\ gradient[x][1] * gradient[C24_At(x, C24_Steps(x))][1]
                      + gradient[x][2] * gradient[C24_At(x, C24_Steps(x))][2]
                      >= 0
           /\ \E x \in Scanned :
                 /\ InImage(C24_At(x, C24_Steps(x)))
                 /\ gradient[x][1] * gradient[C24_At(x, C24_Steps(x))][1]
                      + gradient[x][2] * gradient[C24_At(x, C24_Steps(x))][2]
                      < 0
                 /\ C24_Rejected(x)
           /\ \A x \in Scanned :
                 C24_Rejected(x) <=> x \notin {r.p : r \in Range(rays)}
           /\ \A x \in Pixels :
                 SWTImage[x] # Unset <=>
                    \E r \in Range(rays) : x \in Range(r.points)

-----------------------------------------------------------------------------
(* The point of rotation *)

\* The corners of the union of the member boxes of chain c.
C25_Union(c) ==
    LET ids == Range(c.components) IN
    [x0 |-> CHOOSE v \in {compBB[k][1][1] : k \in ids} :
               \A k \in ids : v <= compBB[k][1][1],
     y0 |-> CHOOSE v \in {compBB[k][1][2] : k \in ids} :
               \A k \in ids : v <= compBB[k][1][2],
     x1 |-> CHOOSE v \in {compBB[k][2][1] : k \in ids} :
               \A k \in ids : v >= compBB[k][2][1],
     y1 |-> CHOOSE v \in {compBB[k][2][2] : k \in ids} :
               \A k \in ids : v >= compBB[k][2][2]]

\* C25: the patch of every chain that passes the geometric tests is rotated
\* about the centre ((x0 + x1)/2, (y0 + y1)/2) of the chain's union box, in
\* the integer coordinates of cv::Point.
C25_RotationCentre ==
    \A i \in DOMAIN verdicts :
        verdicts[i].end \in {"roi", "ocr"} =>
            LET u == C25_Union(chains[i]) IN
            verdicts[i].center =
                <<(u.x0 + u.x1) \div 2, (u.y0 + u.y1) \div 2>>

-----------------------------------------------------------------------------
(* The oriented box search *)

\* C26: for every component the filter has examined, the candidate length
\* and width of every sampled angle are (max - min + 1) of the rotated x and
\* y coordinates of the member pixels, also when every rotated x is
\* negative, and the box kept is the candidate of strictly smallest area
\* among the axis-aligned box and the sampled angles.
C26_OrientedBoxSearch ==
    \A i \in DOMAIN components :
        (pc # "filter" \/ i < scan) =>
            LET c == components[i]
                b == AxisBox(c)
            IN  /\ \A k \in Angles : Candidate(c, k) = RotatedExtent(c, k)
                /\ OrientedBox(c) =
                      MinimalBox(c, 1,
                          [length |-> Fixed(b.maxx - b.minx + 1),
                           width |-> Fixed(b.maxy - b.miny + 1)])

-----------------------------------------------------------------------------
(* Directions of merged chains *)

\* A step of the merge loop that merges.
C27_Merging == pc = "merge" /\ pc' = "merge" /\ loop'.merges = loop.merges + 1

\* A chain as pushed for a pair of components with one centre.
C27_CoincidingSeed(c) ==
    /\ \E k \in DOMAIN seeds :
          seeds[k].p = c.p /\ seeds[k].q = c.q
          /\ seeds[k].components = c.components
    /\ c.components = <<c.p, c.q>>
    /\ compCenters[c.p] = compCenters[c.q]

C27_ZeroIsSeed ==
    \A k \in DOMAIN chains :
        chains[k].direction = <<0, 0>> => C27_CoincidingSeed(chains[k])

C27_Step ==
    /\ C27_Merging =>
          /\ chains'[loop'.i].p # chains'[loop'.i].q
          /\ compCenters[chains'[loop'.i].p] # compCenters[chains'[loop'.i].q]
          /\ chains'[loop'.i].direction # <<0, 0>>
          /\ chains[loop'.i].direction # <<0, 0>>
          /\ chains[loop'.j].direction # <<0, 0>>
    /\ C27_ZeroIsSeed'

\* C27: every merge yields a chain whose endpoints are distinct components
\* with different centres, so the recomputed direction is never the zero
\* vector; a chain of zero direction is a seed of two components with one
\* centre, and it is neither the absorbing nor the absorbed chain of a merge.
C27_NoZeroDirectionMerge == [][C27_Step]_vars

\* A pass has merged chains while a seed of zero direction stays in the pool
\* to the end unmerged, sharing an endpoint with the merged chain.
C27_Witness ==
    /\ pc = "done"
    /\ \E k \in DOMAIN seeds :
          /\ seeds[k].direction = <<0, 0>>
          /\ \E l \in DOMAIN seeds :
                l # k /\ seeds[l].p = seeds[k].p /\ seeds[l].direction # <<0, 0>>
    /\ \E k \in DOMAIN chains : Len(chains[k].components) >= 3

-----------------------------------------------------------------------------
(* Conservation of component entries *)

RECURSIVE C28_Sum(_, _)
C28_Sum(cs, k) ==
    IF k > Len(cs) THEN 0 ELSE Len(cs[k].components) + C28_Sum(cs, k + 1)

\* The places <<k, n>> at which pooled chain k lists the pair <<a, b>> at the
\* entries 2n - 1 and 2n of its component list.
C28_Places(cs, a, b) ==
    {kn \in {<<k, n>> : k \in DOMAIN cs, n \in 1 .. 2 * Len(seeds)} :
        /\ 2 * kn[2] <= Len(cs[kn[1]].components)
        /\ cs[kn[1]].components[2 * kn[2] - 1] = a
        /\ cs[kn[1]].components[2 * kn[2]] = b}

C28_Conserved ==
    /\ C28_Sum(chains, 1) = 2 * Len(seeds)
    /\ \A k \in DOMAIN seeds :
          Cardinality(C28_Places(chains, seeds[k].p, seeds[k].q)) = 1

\* C28: at the end of every pass of the merge loop the lengths of the
\* component lists of the chains in the pool add up to twice the number of
\* seed chains, and the pair of every seed stands in exactly one of these
\* lists, at the entries that seed contributed.
C28_EntriesConserved ==
    [][(pc = "merge" /\ loop'.passes = loop.passes + 1) => C28_Conserved']_vars

\* The last pass has ended after a pass that merged: a chain of three seeds
\* lists components more than once.
C28_Witness ==
    /\ pc = "accept"
    /\ loop.passes >= 2
    /\ Len(seeds) >= 3
    /\ \E k \in DOMAIN chains :
          /\ Len(chains[k].components) >= 6
          /\ Cardinality(Range(chains[k].components))
                < Len(chains[k].components)

=============================================================================
